---- MODULE Spec2Model ----
(***************************************************************************)
(* A model of AltDeque (src/src/lib.rs), its Drain iterator                *)
(* (src/src/drain.rs) and the part of RawVec (src/src/raw_vec.rs) that     *)
(* decides the capacity.                                                   *)
(*                                                                         *)
(* The buffer is a function from the offsets 0..cap-1 to element           *)
(* identities.  Every element the caller creates gets a fresh identity, so *)
(* a lost, duplicated or misplaced element is visible.  Inside one         *)
(* operation a slot keeps the bits of an element moved out of it, as the   *)
(* memory does; between operations the slots between head and tail, whose  *)
(* content is indeterminate, read as Uninit.                               *)
(*                                                                         *)
(* Spec runs every operation from with_capacity and keeps no history of    *)
(* the calls.  SpecQueue (push and pop), SpecDrain, SpecContiguous and     *)
(* SpecIndexed run a few operations each and record, for the last call,    *)
(* its name and arguments (op), the deque before it (pre) and what it      *)
(* returned, destroyed and allocated; the last three start from a deque    *)
(* built from a tuple of arrays, in every layout up to a size.             *)
(***************************************************************************)
EXTENDS Integers, Sequences, FiniteSets

\* ------------------------------------------------------------------ bounds
\* number of elements the caller creates in a run of all the operations
MaxId == 3
\* number of elements the caller creates in a run of pushes and pops
MaxPushed == 6
\* largest capacity passed to with_capacity
MaxInitCap == 3
\* reserve, reserve_exact and append are not called beyond this capacity
MaxCap == 6
\* largest `additional` passed to reserve and reserve_exact
MaxAdditional == 3
\* largest number of elements and of free slots in a deque built from a tuple
MaxLen == 4
MaxSlack == 2
\* number of elements the caller creates after building a deque from a tuple
MaxInsert == 1
\* the same two sizes, for the runs that only rearrange the elements
MaxWideLen == 8
MaxWideSlack == 4
\* largest number of elements in the deque passed to append
MaxOther == 2
\* iterations allowed to the block-swap loop of make_contiguous
LoopFuel == 12
\* largest number of elements, and largest element, of the deque compared with
MaxEqLen == 3

\* ------------------------------------------------ constants of the program
\* RawVec::MIN_NON_ZERO_CAP for an element of 2..1024 bytes
MIN_NON_ZERO_CAP == 4

\* content of a slot that holds no element
Uninit == 0

VARIABLES
    head,       \* AltDeque.head
    tail,       \* AltDeque.tail
    cap,        \* RawVec.cap
    buf,        \* the allocation: offset -> element identity (or Uninit)
    ub,         \* the rules of the memory model the last operation broke (empty: none)
    fault,      \* the panic the last operation ended with, if any
    drops,      \* the elements whose destructor the last operation ran, in order
    ret,        \* what the last operation returned: <<>> is None, <<x>> is Some(x), a slice otherwise
    alloc,      \* the number of allocator calls the last operation made
    phase,      \* "idle", "draining", "dropped", "vec", "aborted"
    drain,      \* the fields of the live Drain
    yielded,    \* the elements the live Drain has yielded, in order
    op,         \* the last operation and its arguments
    pre,        \* the deque before the last operation (before drain() while a Drain lives)
    other,      \* the second deque of split_off (its result) and append (its argument, afterwards)
    nextId,     \* the identity of the next element the caller creates
    exits,      \* identity -> how often the element left the deque: was handed to
                \* the caller or had its destructor run (2 stands for twice or more)
    lastId,     \* the last identity the caller may give to an element in this run
    observe,    \* whether the run records op, pre, ret, drops, alloc, fault and other
    ref,        \* the reference double-ended queue
    refret,     \* what the reference queue returned to the last call
    before,     \* the operation before the last one and the deque before it, in the
                \* runs that keep two operations of history
    flips       \* identity -> how often a pop moved the element to another slot
                \* (2 stands for twice or more), in the runs that count it

vars == <<head, tail, cap, buf, ub, fault, drops, ret, alloc, phase, drain, yielded,
          op, pre, other, nextId, lastId, exits, observe, ref, refret, before, flips>>

\* ---------------------------------------------------------------- helpers
Max(a, b) == IF a >= b THEN a ELSE b

Min(a, b) == IF a < b THEN a ELSE b

\* the identities of the elements
Ids == 1..Max(Max(MaxId, MaxPushed), Max(MaxLen + MaxInsert, MaxWideLen))

\* s[from..to) of a sequence, 0-based
Slice(s, from, to) == [i \in 1..(to - from) |-> s[from + i]]

Range(s) == {s[i] : i \in DOMAIN s}

\* the deque as the methods see it
NoFault == [kind |-> "none", a |-> 0, b |-> 0]

self == [head |-> head, tail |-> tail, cap |-> cap, buf |-> buf,
         ub |-> {}, fault |-> NoFault, drops |-> <<>>, ret |-> <<>>, alloc |-> 0]

\* a panic whose message names the index as the length and the length as the index
index_out_of_bounds_swapped(d, length, index) ==
    [d EXCEPT !.fault = [kind |-> "index out of bounds", a |-> index, b |-> length]]

\* panic!("index out of bounds: the len is {} but the index is {}", len, index)
index_out_of_bounds(d, length, index) ==
    [d EXCEPT !.fault = [kind |-> "index out of bounds", a |-> length, b |-> index]]

\* RawVec::capacity, for an element type that is not zero-sized
capacity(d) == d.cap

len(d) == d.cap - d.tail + d.head

is_empty(d) == d.head = 0 /\ d.tail = d.cap

is_full(d) == d.tail = d.head

\* (front, back)
as_slices(d) ==
    << [i \in 1..(d.cap - d.tail) |-> d.buf[d.tail + i - 1]],
       [i \in 1..d.head |-> d.buf[i - 1]] >>

\* the logical sequence: what iter() yields
iter(d) == as_slices(d)[1] \o as_slices(d)[2]

\* ptr::read / ptr::write / ptr::swap at self.buf_add(offset)
InBuf(d, offset) == offset >= 0 /\ offset < d.cap

buf_read(d, offset) == IF InBuf(d, offset) THEN d.buf[offset] ELSE Uninit

buf_write(d, offset, value) ==
    [d EXCEPT !.buf = [i \in 0..(d.cap - 1) |-> IF i = offset THEN value ELSE d.buf[i]],
              !.ub = d.ub \cup (IF InBuf(d, offset) THEN {} ELSE {"out of bounds"})]

\* ptr::copy(self.buf_add(from), self.buf_add(to), len): a memmove
copy(d, from, to, n) ==
    [d EXCEPT !.buf = [i \in 0..(d.cap - 1) |->
                          IF i >= to /\ i < to + n
                          THEN buf_read(d, from + (i - to))
                          ELSE d.buf[i]],
              !.ub = d.ub \cup (IF n < 0 \/ from < 0 \/ to < 0
                                       \/ from + n > d.cap \/ to + n > d.cap
                                    THEN {"out of bounds"} ELSE {})]

\* ptr::copy_nonoverlapping inside one buffer: the ranges may not overlap
copy_nonoverlapping(d, from, to, n) ==
    [copy(d, from, to, n) EXCEPT
        !.ub = @ \cup (IF n > 0 /\ from < to + n /\ to < from + n
                       THEN {"overlap"} ELSE {})]

\* alloc::realloc (or alloc::alloc for an unallocated RawVec): the old
\* contents stay at their offsets, the new slots are uninitialised
set_ptr_and_cap(d, new_cap) ==
    [d EXCEPT !.cap = new_cap,
              !.buf = [i \in 0..(new_cap - 1) |-> IF i < d.cap THEN d.buf[i] ELSE Uninit],
              !.alloc = d.alloc + 1]

needs_to_grow(d, length, additional) == additional > d.cap - length

\* grow_amortized without the doubling
grow_amortized_no_double(d, length, additional) ==
    set_ptr_and_cap(d, Max(MIN_NON_ZERO_CAP, length + additional))

grow_amortized(d, length, additional) ==
    set_ptr_and_cap(d, Max(MIN_NON_ZERO_CAP, Max(d.cap * 2, length + additional)))

grow_exact(d, length, additional) == set_ptr_and_cap(d, length + additional)

reserve_for_push(d, length) == grow_amortized(d, length, 1)

\* a growth step that leaves the front stack where it was
handle_capacity_increase_no_move(d, old_cap) == d

\* moves the front stack to the end of the grown buffer
handle_capacity_increase(d, old_cap) ==
    IF old_cap = d.cap THEN d
    ELSE LET growth == d.cap - old_cap
             front_len == old_cap - d.tail
             new_tail == d.tail + growth
             moved == IF growth >= front_len
                      THEN copy_nonoverlapping(d, d.tail, new_tail, front_len)
                      ELSE copy(d, d.tail, new_tail, front_len)
         IN [moved EXCEPT !.tail = new_tail]

grow(d) == handle_capacity_increase(reserve_for_push(d, d.cap), d.cap)

with_capacity(c) ==
    [head |-> 0, tail |-> c, cap |-> c, buf |-> [i \in 0..(c - 1) |-> Uninit],
     ub |-> {}, fault |-> NoFault, drops |-> <<>>, ret |-> <<>>,
     alloc |-> IF c = 0 THEN 0 ELSE 1]

\* --------------------------------------------------------- push and pop
\* pop_front that forgets to empty the back stack after moving it
pop_front_keeps_head(d) ==
    IF d.tail # d.cap THEN
        [d EXCEPT !.tail = d.tail + 1, !.ret = <<buf_read(d, d.tail)>>]
    ELSE IF d.head # 0 THEN
        LET t == d.cap - d.head + 1
            moved == copy([d EXCEPT !.tail = t], 1, t, d.head - 1)
        IN [moved EXCEPT !.ret = <<buf_read(moved, 0)>>]
    ELSE [d EXCEPT !.ret = <<>>]

\* pop_front that swaps the two elements next in line after an O(1) pop
pop_front_swaps_next(d) ==
    IF d.tail # d.cap THEN
        LET popped == [d EXCEPT !.tail = d.tail + 1, !.ret = <<buf_read(d, d.tail)>>]
            t == popped.tail
        IN IF t + 1 < d.cap
           THEN buf_write(buf_write(popped, t, buf_read(d, t + 1)), t + 1, buf_read(d, t))
           ELSE popped
    ELSE IF d.head # 0 THEN
        LET t == d.cap - d.head + 1
            moved == copy([d EXCEPT !.tail = t], 1, t, d.head - 1)
        IN [moved EXCEPT !.head = 0, !.ret = <<buf_read(moved, 0)>>]
    ELSE [d EXCEPT !.ret = <<>>]

pop_front(d) ==
    IF d.tail # d.cap THEN
        [d EXCEPT !.tail = d.tail + 1, !.ret = <<buf_read(d, d.tail)>>]
    ELSE IF d.head # 0 THEN
        LET t == d.cap - d.head + 1
            moved == copy([d EXCEPT !.tail = t], 1, t, d.head - 1)
        IN [moved EXCEPT !.head = 0, !.ret = <<buf_read(moved, 0)>>]
    ELSE [d EXCEPT !.ret = <<>>]

\* pop_back whose flip returns the first element of the front stack
pop_back_takes_first(d) ==
    IF d.head # 0 THEN
        [d EXCEPT !.head = d.head - 1, !.ret = <<buf_read(d, d.head - 1)>>]
    ELSE IF d.tail # d.cap THEN
        LET h == d.cap - d.tail - 1
            moved == copy([d EXCEPT !.head = h], d.tail + 1, 0, h)
        IN [moved EXCEPT !.tail = d.cap, !.ret = <<buf_read(d, d.tail)>>]
    ELSE [d EXCEPT !.ret = <<>>]

pop_back(d) ==
    IF d.head # 0 THEN
        [d EXCEPT !.head = d.head - 1, !.ret = <<buf_read(d, d.head - 1)>>]
    ELSE IF d.tail # d.cap THEN
        LET h == d.cap - d.tail - 1
            moved == copy([d EXCEPT !.head = h], d.tail, 0, h)
        IN [moved EXCEPT !.tail = d.cap, !.ret = <<buf_read(moved, d.cap - 1)>>]
    ELSE [d EXCEPT !.ret = <<>>]

\* push_front that puts the value behind the old first element
push_front_behind(d, value) ==
    LET g == IF is_full(d) THEN grow(d) ELSE d
        first == IF g.tail < g.cap THEN buf_read(g, g.tail) ELSE value
        moved == buf_write([g EXCEPT !.tail = g.tail - 1], g.tail - 1, first)
    IN IF g.tail < g.cap THEN buf_write(moved, g.tail, value) ELSE moved

push_front(d, value) ==
    LET g == IF is_full(d) THEN grow(d) ELSE d
    IN buf_write([g EXCEPT !.tail = g.tail - 1], g.tail - 1, value)

\* push_back that does not grow a full buffer
push_back_no_grow(d, value) ==
    [buf_write(d, d.head, value) EXCEPT !.head = d.head + 1]

push_back(d, value) ==
    LET g == IF is_full(d) THEN grow(d) ELSE d
    IN [buf_write(g, g.head, value) EXCEPT !.head = g.head + 1]

\* ------------------------------------------------------ get, swap, remove
\* get that reads the back stack at the logical index
get_back_at_index(d, index) ==
    LET front_len == d.cap - d.tail IN
    IF index < front_len + d.head
    THEN (IF index < front_len THEN d.tail + index ELSE index)
    ELSE -1

\* the offset of the element at `index`, or -1 where get() returns None
get(d, index) ==
    LET front_len == d.cap - d.tail IN
    IF index < front_len + d.head
    THEN (IF index < front_len THEN d.tail + index ELSE index - front_len)
    ELSE -1

\* Index::index: ret is the element the reference points to
index_ref(d, i) ==
    IF get(d, i) # -1 THEN [d EXCEPT !.ret = <<buf_read(d, get(d, i))>>]
    ELSE index_out_of_bounds(d, len(d), i)

\* IndexMut::index_mut
index_mut(d, i) ==
    LET length == len(d) IN
    IF get(d, i) # -1 THEN [d EXCEPT !.ret = <<buf_read(d, get(d, i))>>]
    ELSE index_out_of_bounds(d, length, i)

swap(d, i, j) ==
    LET front_len == d.cap - d.tail
        length == front_len + d.head
        oi == IF i < front_len THEN d.tail + i ELSE i - front_len
        oj == IF j < front_len THEN d.tail + j ELSE j - front_len
    IN IF i >= length THEN index_out_of_bounds(d, length, i)
       ELSE IF j >= length THEN index_out_of_bounds(d, length, j)
       ELSE buf_write(buf_write(d, oi, buf_read(d, oj)), oj, buf_read(d, oi))

swap_remove_front(d, index) ==
    IF index < len(d) THEN pop_front(swap(d, index, 0)) ELSE [d EXCEPT !.ret = <<>>]

\* swap_remove_back that pops without swapping
swap_remove_back_no_swap(d, index) ==
    IF index < len(d) THEN pop_back(d) ELSE [d EXCEPT !.ret = <<>>]

swap_remove_back(d, index) ==
    IF index < len(d) THEN pop_back(swap(d, index, len(d) - 1)) ELSE [d EXCEPT !.ret = <<>>]

\* remove that returns the element asked for and takes the last one out of
\* the back stack
remove_back_pops_last(d, index) ==
    LET front_len == d.cap - d.tail IN
    IF index < front_len THEN
        LET el == buf_read(d, d.tail + index)
            new_tail == d.tail + 1
        IN [copy(d, d.tail, new_tail, index) EXCEPT !.tail = new_tail, !.ret = <<el>>]
    ELSE
        LET idx == index - front_len IN
        IF idx < d.head THEN
            LET el == buf_read(d, idx)
                h == d.head - 1
            IN [d EXCEPT !.head = h, !.ret = <<el>>]
        ELSE [d EXCEPT !.ret = <<>>]

\* remove that does not close the gap in the front stack
remove_no_shift(d, index) ==
    LET front_len == d.cap - d.tail IN
    IF index < front_len THEN
        LET el == buf_read(d, d.tail + index)
            new_tail == d.tail + 1
        IN [d EXCEPT !.tail = new_tail, !.ret = <<el>>]
    ELSE
        LET idx == index - front_len IN
        IF idx < d.head THEN
            LET el == buf_read(d, idx)
                h == d.head - 1
            IN [copy([d EXCEPT !.head = h], idx + 1, idx, h - idx) EXCEPT !.ret = <<el>>]
        ELSE [d EXCEPT !.ret = <<>>]

remove(d, index) ==
    LET front_len == d.cap - d.tail IN
    IF index < front_len THEN
        LET el == buf_read(d, d.tail + index)
            new_tail == d.tail + 1
        IN [copy(d, d.tail, new_tail, index) EXCEPT !.tail = new_tail, !.ret = <<el>>]
    ELSE
        LET idx == index - front_len IN
        IF idx < d.head THEN
            LET el == buf_read(d, idx)
                h == d.head - 1
            IN [copy([d EXCEPT !.head = h], idx + 1, idx, h - idx) EXCEPT !.ret = <<el>>]
        ELSE [d EXCEPT !.ret = <<>>]

\* insert that moves one element too few of the back stack
insert_short_shift(d, index, value) ==
    LET g == IF is_full(d) THEN grow(d) ELSE d
        front_len == g.cap - g.tail
    IN IF index < front_len THEN
           LET new_tail == g.tail - 1
               moved == [copy(g, g.tail, new_tail, index + 1) EXCEPT !.tail = new_tail]
           IN buf_write(moved, moved.tail + index, value)
       ELSE
           LET idx == index - front_len IN
           IF idx <= g.head THEN
               LET moved == [copy(g, idx, idx + 1, Max(g.head - idx - 1, 0))
                                EXCEPT !.head = g.head + 1]
               IN buf_write(moved, idx, value)
           ELSE [index_out_of_bounds(g, len(g), idx + front_len) EXCEPT
                    !.drops = Append(g.drops, value)]

\* a panic of insert drops the value it was given
insert(d, index, value) ==
    LET g == IF is_full(d) THEN grow(d) ELSE d
        front_len == g.cap - g.tail
    IN IF index < front_len THEN
           LET new_tail == g.tail - 1
               moved == [copy(g, g.tail, new_tail, index + 1) EXCEPT !.tail = new_tail]
           IN buf_write(moved, moved.tail + index, value)
       ELSE
           LET idx == index - front_len IN
           IF idx <= g.head THEN
               LET moved == [copy(g, idx, idx + 1, g.head - idx) EXCEPT !.head = g.head + 1]
               IN buf_write(moved, idx, value)
           ELSE [index_out_of_bounds(g, len(g), idx + front_len) EXCEPT
                    !.drops = Append(g.drops, value)]

\* ------------------------------------------------------------- capacity
reserve_exact(d, additional) ==
    LET old_cap == d.cap
        used_cap == len(d)
        grown == IF needs_to_grow(d, used_cap, additional)
                 THEN grow_exact(d, used_cap, additional) ELSE d
    IN handle_capacity_increase(grown, old_cap)

reserve(d, additional) ==
    LET old_cap == d.cap
        used_cap == len(d)
        grown == IF needs_to_grow(d, used_cap, additional)
                 THEN grow_amortized(d, used_cap, additional) ELSE d
    IN handle_capacity_increase(grown, old_cap)

\* Extend::extend: each element goes on the back stack; a full deque first
\* reserves room for the elements the iterator still holds, at least one
RECURSIVE extend(_, _)
extend(d, items) ==
    IF items = <<>> THEN d
    ELSE LET lower == Len(Tail(items))
             g == IF is_full(d) THEN reserve(d, Max(lower, 1)) ELSE d
         IN extend([buf_write(g, g.head, Head(items)) EXCEPT !.head = g.head + 1],
                   Tail(items))

\* RawVec::shrink: realloc down to new_cap slots, also when new_cap is 0
shrink(d, new_cap) ==
    IF d.cap = 0 THEN d
    ELSE [d EXCEPT !.cap = new_cap,
                   !.buf = [i \in 0..(new_cap - 1) |-> d.buf[i]],
                   !.alloc = d.alloc + 1,
                   !.ub = d.ub \cup (IF new_cap = 0 THEN {"realloc to size zero"} ELSE {})]

\* shrink_to that shrinks to the length whatever the lower bound
shrink_to_len(d, min_capacity) ==
    IF min_capacity >= capacity(d) THEN d
    ELSE LET target_cap == len(d)
             front_len == d.cap - d.tail
             new_tail == target_cap - front_len
             moved == [copy(d, d.tail, new_tail, front_len) EXCEPT !.tail = new_tail]
             shrunk == shrink(moved, target_cap)
         IN IF shrunk.cap > target_cap
            THEN [copy(shrunk, shrunk.tail, shrunk.cap - front_len, front_len)
                     EXCEPT !.tail = shrunk.cap - front_len]
            ELSE shrunk

shrink_to(d, min_capacity) ==
    IF min_capacity >= capacity(d) THEN d
    ELSE LET target_cap == Max(min_capacity, len(d))
             front_len == d.cap - d.tail
             new_tail == target_cap - front_len
             moved == [copy(d, d.tail, new_tail, front_len) EXCEPT !.tail = new_tail]
             shrunk == shrink(moved, target_cap)
         IN IF shrunk.cap > target_cap
            THEN [copy(shrunk, shrunk.tail, shrunk.cap - front_len, front_len)
                     EXCEPT !.tail = shrunk.cap - front_len]
            ELSE shrunk

shrink_to_fit(d) == shrink_to(d, 0)

\* ------------------------------------------------------------- truncate
\* truncate whose guard sets tail and moves nothing
truncate_no_move(d, n) ==
    IF n > len(d) THEN d
    ELSE LET front == as_slices(d)[1]
             back == as_slices(d)[2]
         IN IF n > Len(front) THEN
                LET begin == n - Len(front) IN
                [d EXCEPT !.head = begin,
                          !.drops = d.drops \o Slice(back, begin, Len(back))]
            ELSE
                [d EXCEPT !.head = 0, !.tail = d.cap - n,
                          !.drops = d.drops \o Slice(front, n, Len(front)) \o back]

\* the destructors run on the front stack's doomed part first, then on the
\* back stack (Dropper), then DropGuard moves the retained part
truncate(d, n) ==
    IF n > len(d) THEN d
    ELSE LET front == as_slices(d)[1]
             back == as_slices(d)[2]
         IN IF n > Len(front) THEN
                LET begin == n - Len(front) IN
                [d EXCEPT !.head = begin,
                          !.drops = d.drops \o Slice(back, begin, Len(back))]
            ELSE
                LET old_tail == d.tail
                    dropped == [d EXCEPT !.head = 0, !.tail = d.cap,
                                   !.drops = d.drops \o Slice(front, n, Len(front)) \o back]
                    guarded == [dropped EXCEPT !.tail = d.cap - n]
                IN copy(guarded, old_tail, guarded.tail, n)

clear(d) == truncate(d, 0)

\* ptr::drop_in_place on a slice: the destructor of every element runs, in
\* order, also of those behind the element `bad` whose destructor panics
drop_in_place(d, s, bad) ==
    [d EXCEPT !.drops = d.drops \o s,
              !.fault = IF bad \in Range(s)
                        THEN [kind |-> "destructor panicked", a |-> bad, b |-> 0]
                        ELSE d.fault]

\* truncate up to the call of the first destructor: the cursors are moved
truncate_cut(d, n) ==
    IF n > len(d) THEN d
    ELSE IF n > d.cap - d.tail
         THEN [d EXCEPT !.head = n - (d.cap - d.tail)]
         ELSE [d EXCEPT !.head = 0, !.tail = d.cap]

\* a truncate without Dropper and DropGuard: a panic in the front stack's
\* destructors ends the call then and there
truncate_unwind_no_guard(d, n, bad) ==
    IF n > len(d) THEN d
    ELSE LET front == as_slices(d)[1]
             back == as_slices(d)[2]
             cut == truncate_cut(d, n)
         IN IF n > Len(front) THEN
                drop_in_place(cut, Slice(back, n - Len(front), Len(back)), bad)
            ELSE
                LET front_dropped == drop_in_place(cut, Slice(front, n, Len(front)), bad)
                IN IF front_dropped.fault # NoFault THEN front_dropped
                   ELSE LET back_dropped == drop_in_place(front_dropped, back, bad)
                            guarded == [back_dropped EXCEPT !.tail = d.cap - n]
                        IN copy(guarded, d.tail, guarded.tail, n)

\* truncate when the destructor of the element `bad` panics: Dropper still
\* destroys the back stack and DropGuard still moves the retained part
\* while the panic unwinds
truncate_unwind(d, n, bad) ==
    IF n > len(d) THEN d
    ELSE LET front == as_slices(d)[1]
             back == as_slices(d)[2]
             cut == truncate_cut(d, n)
         IN IF n > Len(front) THEN
                drop_in_place(cut, Slice(back, n - Len(front), Len(back)), bad)
            ELSE
                LET front_dropped == drop_in_place(cut, Slice(front, n, Len(front)), bad)
                    back_dropped == drop_in_place(front_dropped, back, bad)
                    guarded == [back_dropped EXCEPT !.tail = d.cap - n]
                IN copy(guarded, d.tail, guarded.tail, n)

\* ------------------------------------------------------ make_contiguous
\* for i in left..right { ptr::swap(buf_add(i), buf_add(i + count)) }
RECURSIVE swap_blocks(_, _, _, _)
swap_blocks(d, i, right, count) ==
    IF i >= right THEN d
    ELSE swap_blocks(
             buf_write(buf_write(d, i, buf_read(d, i + count)), i + count, buf_read(d, i)),
             i + 1, right, count)

\* the loop with a distance between the blocks that never gets smaller
RECURSIVE block_swap_loop_keeps_count(_, _, _, _, _, _)
block_swap_loop_keeps_count(d, count, left, right, free, fuel) ==
    IF fuel = 0 THEN [d EXCEPT !.ub = d.ub \cup {"loop does not end"}, !.ret = <<>>]
    ELSE LET swapped == swap_blocks(d, left, right, count) IN
         IF left # 0 THEN
             block_swap_loop_keeps_count(swapped, count, Max(left - count, 0), right - count,
                                         free, fuel - 1)
         ELSE IF right < count THEN
             IF right >= count - free
             THEN [copy(swapped, 0, free, right - left) EXCEPT !.ret = <<"final shift">>]
             ELSE block_swap_loop_keeps_count(swapped, count, left, right, free, fuel - 1)
         ELSE [swapped EXCEPT !.ret = <<"multiple of count">>]

\* the loop of the last case of make_contiguous; `fuel` bounds its
\* iterations, and the exit taken is left in `ret` until make_contiguous
\* puts the returned slice there
RECURSIVE block_swap_loop(_, _, _, _, _, _)
block_swap_loop(d, count, left, right, free, fuel) ==
    IF fuel = 0 THEN [d EXCEPT !.ub = d.ub \cup {"loop does not end"}, !.ret = <<>>]
    ELSE LET swapped == swap_blocks(d, left, right, count) IN
         IF left # 0 THEN
             block_swap_loop(swapped, count, Max(left - count, 0), right - count, free, fuel - 1)
         ELSE IF right < count THEN
             IF right >= count - free
             THEN [copy(swapped, 0, free, right - left) EXCEPT !.ret = <<"final shift">>]
             ELSE block_swap_loop(swapped, count - right, left, right, free, fuel - 1)
         ELSE [swapped EXCEPT !.ret = <<"multiple of count">>]

\* make_contiguous that gathers the elements at offset 0, as one back stack
make_contiguous_low_end(d) ==
    LET s == iter(d)
        done == [d EXCEPT !.buf = [i \in 0..(d.cap - 1) |->
                                      IF i < Len(s) THEN s[i + 1] ELSE Uninit],
                          !.head = Len(s), !.tail = d.cap]
    IN [done EXCEPT !.ret = s]

\* make_contiguous that turns an empty back stack into the only stack
make_contiguous_flip(d) ==
    IF d.head = 0
    THEN LET front_len == d.cap - d.tail
             moved == copy(d, d.tail, 0, front_len)
             done == [moved EXCEPT !.head = front_len, !.tail = d.cap]
         IN [done EXCEPT !.ret = as_slices(done)[2]]
    ELSE LET front_len == d.cap - d.tail
             free == d.tail - d.head
             moved ==
                 IF front_len = 0 THEN copy(d, 0, free, d.head)
                 ELSE IF free >= d.head THEN
                     copy_nonoverlapping(copy(d, d.tail, free, front_len),
                                         0, d.cap - d.head, d.head)
                 ELSE IF free >= front_len THEN
                     copy(copy_nonoverlapping(copy(d, 0, front_len, d.head),
                                              d.tail, 0, front_len),
                          0, free, front_len + d.head)
                 ELSE block_swap_loop(d, front_len + free, Max(d.head - (front_len + free), 0),
                                      d.head, free, LoopFuel)
             done == [moved EXCEPT !.head = 0, !.tail = free]
         IN [done EXCEPT !.ret = as_slices(done)[1]]

make_contiguous(d) ==
    IF d.head = 0 THEN [d EXCEPT !.ret = as_slices(d)[1]]
    ELSE LET front_len == d.cap - d.tail
             free == d.tail - d.head
             moved ==
                 IF front_len = 0 THEN copy(d, 0, free, d.head)
                 ELSE IF free >= d.head THEN
                     copy_nonoverlapping(copy(d, d.tail, free, front_len),
                                         0, d.cap - d.head, d.head)
                 ELSE IF free >= front_len THEN
                     copy(copy_nonoverlapping(copy(d, 0, front_len, d.head),
                                              d.tail, 0, front_len),
                          0, free, front_len + d.head)
                 ELSE block_swap_loop(d, front_len + free, Max(d.head - (front_len + free), 0),
                                      d.head, free, LoopFuel)
             done == [moved EXCEPT !.head = 0, !.tail = free]
         IN [done EXCEPT !.ret = as_slices(done)[1]]

\* --------------------------------------------------------------- rotate
\* rotate_left that moves the stack bounds and not the elements
rotate_left_no_copy(d, mid) ==
    LET front_len == d.cap - d.tail IN
    IF mid < front_len THEN
        [d EXCEPT !.head = d.head + mid, !.tail = d.tail + mid]
    ELSE
        LET m == mid - front_len IN
        IF m <= d.head THEN
            LET count == d.head - m
            IN [d EXCEPT !.head = m, !.tail = d.tail - count]
        ELSE index_out_of_bounds(d, len(d), m + front_len)

rotate_left(d, mid) ==
    LET front_len == d.cap - d.tail IN
    IF mid < front_len THEN
        [copy(d, d.tail, d.head, mid) EXCEPT !.head = d.head + mid, !.tail = d.tail + mid]
    ELSE
        LET m == mid - front_len IN
        IF m <= d.head THEN
            LET count == d.head - m
                moved == [d EXCEPT !.head = m, !.tail = d.tail - count]
            IN copy(moved, m, moved.tail, count)
        ELSE index_out_of_bounds(d, len(d), m + front_len)

\* rotate_right that moves the stack bounds and not the elements
rotate_right_no_copy(d, k) ==
    IF k <= d.head THEN
        [d EXCEPT !.head = d.head - k, !.tail = d.tail - k]
    ELSE
        LET front_len == d.cap - d.tail
            kk == k - d.head
        IN IF kk <= front_len THEN
               LET count == front_len - kk IN
               [d EXCEPT !.head = d.head + count, !.tail = d.tail + count]
           ELSE index_out_of_bounds(d, len(d), kk + d.head)

rotate_right(d, k) ==
    IF k <= d.head THEN
        LET moved == [d EXCEPT !.head = d.head - k, !.tail = d.tail - k]
        IN copy(moved, moved.head, moved.tail, k)
    ELSE
        LET front_len == d.cap - d.tail
            kk == k - d.head
        IN IF kk <= front_len THEN
               LET count == front_len - kk IN
               [copy(d, d.tail, d.head, count) EXCEPT
                   !.head = d.head + count, !.tail = d.tail + count]
           ELSE index_out_of_bounds(d, len(d), kk + d.head)

\* ------------------------------------------------- split_off and append
\* ptr::copy_nonoverlapping(src.buf_add(from), dst.buf_add(to), n), two allocations
copy_to(src, from, dst, to, n) ==
    [dst EXCEPT !.buf = [i \in 0..(dst.cap - 1) |->
                            IF i >= to /\ i < to + n
                            THEN buf_read(src, from + (i - to))
                            ELSE dst.buf[i]],
                !.ub = dst.ub \cup (IF n < 0 \/ from < 0 \/ to < 0
                                         \/ from + n > src.cap \/ to + n > dst.cap
                                      THEN {"out of bounds"} ELSE {})]

\* split_off that leaves the back stack in self as well
split_off_keeps_back(d, at) ==
    LET front_len == d.cap - d.tail
        length == front_len + d.head
        other_len == length - at
        new == with_capacity(other_len)
    IN IF at > length
       THEN [self |-> index_out_of_bounds(d, length, at), other |-> with_capacity(0)]
       ELSE IF at < front_len THEN
           LET o1 == copy_to(d, 0, new, new.cap - d.head, d.head)
               o2 == [o1 EXCEPT !.tail = o1.cap - other_len]
               o3 == copy_to(d, d.tail + at, o2, o2.tail, front_len - at)
               new_tail == d.cap - at
               s1 == [copy(d, d.tail, new_tail, at) EXCEPT
                         !.tail = new_tail]
           IN [self |-> [s1 EXCEPT !.alloc = d.alloc + new.alloc, !.ub = s1.ub \cup o3.ub],
               other |-> o3]
       ELSE
           LET s1 == [d EXCEPT !.head = at - front_len]
               o1 == [new EXCEPT !.tail = new.cap - other_len]
               o2 == copy_to(s1, s1.head, o1, o1.tail, other_len)
           IN [self |-> [s1 EXCEPT !.alloc = d.alloc + new.alloc, !.ub = s1.ub \cup o2.ub],
               other |-> o2]

\* [self |-> the deque afterwards, other |-> the deque returned]
split_off(d, at) ==
    LET front_len == d.cap - d.tail
        length == front_len + d.head
        other_len == length - at
        new == with_capacity(other_len)
    IN IF at > length
       THEN [self |-> index_out_of_bounds(d, length, at), other |-> with_capacity(0)]
       ELSE IF at < front_len THEN
           LET o1 == copy_to(d, 0, new, new.cap - d.head, d.head)
               o2 == [o1 EXCEPT !.tail = o1.cap - other_len]
               o3 == copy_to(d, d.tail + at, o2, o2.tail, front_len - at)
               new_tail == d.cap - at
               s1 == [copy([d EXCEPT !.head = 0], d.tail, new_tail, at) EXCEPT
                         !.tail = new_tail]
           IN [self |-> [s1 EXCEPT !.alloc = d.alloc + new.alloc, !.ub = s1.ub \cup o3.ub],
               other |-> o3]
       ELSE
           LET s1 == [d EXCEPT !.head = at - front_len]
               o1 == [new EXCEPT !.tail = new.cap - other_len]
               o2 == copy_to(s1, s1.head, o1, o1.tail, other_len)
           IN [self |-> [s1 EXCEPT !.alloc = d.alloc + new.alloc, !.ub = s1.ub \cup o2.ub],
               other |-> o2]

\* append that takes the back stack of other before its front stack
append_back_first(d, o) ==
    LET other_front_len == o.cap - o.tail
        r == reserve(d, other_front_len + o.head)
        r1 == [copy_to(o, 0, r, r.head, o.head) EXCEPT !.head = r.head + o.head]
        r2 == [copy_to(o, o.tail, r1, r1.head, other_front_len) EXCEPT
                  !.head = r1.head + other_front_len]
    IN [self |-> r2, other |-> [o EXCEPT !.head = 0, !.tail = o.cap]]

\* [self |-> the deque afterwards, other |-> the argument afterwards]
append(d, o) ==
    LET other_front_len == o.cap - o.tail
        r == reserve(d, other_front_len + o.head)
        r1 == [copy_to(o, o.tail, r, r.head, other_front_len) EXCEPT
                  !.head = r.head + other_front_len]
        r2 == [copy_to(o, 0, r1, r1.head, o.head) EXCEPT !.head = r1.head + o.head]
    IN [self |-> r2, other |-> [o EXCEPT !.head = 0, !.tail = o.cap]]

\* --------------------------------------------------------------- retain
\* `keep` is the set of elements the predicate accepts; ret collects the
\* elements the predicate was called with, in the order of the calls
RECURSIVE retain_stage2(_, _, _, _, _)
retain_stage2(d, keep, cur, idx, length) ==
    IF cur >= length THEN truncate(d, idx)
    ELSE LET el == buf_read(d, get(d, cur))
             called == [d EXCEPT !.ret = Append(d.ret, el)]
         IN IF el \notin keep
            THEN retain_stage2(called, keep, cur + 1, idx, length)
            ELSE retain_stage2(swap(called, idx, cur), keep, cur + 1, idx + 1, length)

RECURSIVE retain_stage1(_, _, _, _)
retain_stage1(d, keep, cur, length) ==
    IF cur = length THEN d
    ELSE LET el == buf_read(d, get(d, cur))
             called == [d EXCEPT !.ret = Append(d.ret, el)]
         IN IF el \notin keep
            THEN retain_stage2(called, keep, cur + 1, cur, length)
            ELSE retain_stage1(called, keep, cur + 1, length)

retain_mut(d, keep) == retain_stage1(d, keep, 0, len(d))

\* retain that keeps what the predicate rejects
retain_inverted(d, keep) == retain_mut(d, Range(iter(d)) \ keep)

retain(d, keep) == retain_mut(d, keep)

\* ---------------------------------------------------------------- Drain
NoDrain == [old_head |-> 0, old_tail |-> 0, range_start |-> 0, range_end |-> 0,
            start |-> 0, end |-> 0]

\* simplify_range for the range start..end: the fault it ends with, if any
\* simplify_range that does not compare the start with the end
simplify_range_end_only(start, end, length) ==
    IF end > length THEN [kind |-> "range end should be <= length", a |-> end, b |-> length]
    ELSE NoFault

simplify_range(start, end, length) ==
    IF end > length THEN [kind |-> "range end should be <= length", a |-> end, b |-> length]
    ELSE IF start > end THEN [kind |-> "range start should be <= range end", a |-> start, b |-> end]
    ELSE NoFault

\* range(start..end): ret is what the iterator yields
range(d, start, end) ==
    LET f == simplify_range(start, end, len(d))
        front == as_slices(d)[1]
        back == as_slices(d)[2]
        front_len == Len(front)
    IN IF f # NoFault THEN [d EXCEPT !.fault = f]
       ELSE [d EXCEPT !.ret =
                IF start >= front_len
                THEN Slice(back, start - front_len, end - front_len)
                ELSE IF end <= front_len THEN Slice(front, start, end)
                ELSE Slice(front, start, front_len) \o Slice(back, 0, end - front_len)]

\* range_mut(start..end): the same elements, by mutable reference
range_mut(d, start, end) ==
    LET f == simplify_range(start, end, len(d))
        front == as_slices(d)[1]
        back == as_slices(d)[2]
        front_len == Len(front)
    IN IF f # NoFault THEN [d EXCEPT !.fault = f]
       ELSE [d EXCEPT !.ret =
                IF start >= front_len
                THEN Slice(back, start - front_len, end - front_len)
                ELSE IF end <= front_len THEN Slice(front, start, end)
                ELSE Slice(front, start, front_len) \o Slice(back, 0, end - front_len)]

\* [self |-> the deque while the Drain lives, drain |-> the Drain]
\* drain that leaves the cursors of the deque where they are
drain_new_keeps_cursors(d, start, end) ==
    IF simplify_range(start, end, len(d)) # NoFault
    THEN [self |-> [d EXCEPT !.fault = simplify_range(start, end, len(d))], drain |-> NoDrain]
    ELSE [self |-> d,
          drain |-> [old_head |-> d.head, old_tail |-> d.tail,
                     range_start |-> start, range_end |-> end,
                     start |-> start, end |-> end]]

drain_new(d, start, end) ==
    IF simplify_range(start, end, len(d)) # NoFault
    THEN [self |-> [d EXCEPT !.fault = simplify_range(start, end, len(d))], drain |-> NoDrain]
    ELSE [self |-> [d EXCEPT !.head = 0, !.tail = d.cap],
          drain |-> [old_head |-> d.head, old_tail |-> d.tail,
                     range_start |-> start, range_end |-> end,
                     start |-> start, end |-> end]]

\* next() that reads the back stack at the logical index
drain_next_no_offset(d, dr) ==
    IF dr.start < dr.end THEN
        LET front_len == d.cap - dr.old_tail
            start == dr.start
        IN [self |-> [d EXCEPT !.ret = IF start < front_len
                                        THEN <<buf_read(d, start + dr.old_tail)>>
                                        ELSE <<buf_read(d, start)>>],
            drain |-> [dr EXCEPT !.start = start + 1]]
    ELSE [self |-> [d EXCEPT !.ret = <<>>], drain |-> dr]

drain_next(d, dr) ==
    IF dr.start < dr.end THEN
        LET front_len == d.cap - dr.old_tail
            start == dr.start
        IN [self |-> [d EXCEPT !.ret = IF start < front_len
                                        THEN <<buf_read(d, start + dr.old_tail)>>
                                        ELSE <<buf_read(d, start - front_len)>>],
            drain |-> [dr EXCEPT !.start = start + 1]]
    ELSE [self |-> [d EXCEPT !.ret = <<>>], drain |-> dr]

drain_next_back(d, dr) ==
    IF dr.start < dr.end THEN
        LET front_len == d.cap - dr.old_tail
            end == dr.end - 1
        IN [self |-> [d EXCEPT !.ret = IF end < front_len
                                        THEN <<buf_read(d, end + dr.old_tail)>>
                                        ELSE <<buf_read(d, end - front_len)>>],
            drain |-> [dr EXCEPT !.end = end]]
    ELSE [self |-> [d EXCEPT !.ret = <<>>], drain |-> dr]

drain_size_hint(dr) == dr.end - dr.start

\* while let Some(item) = self.next() { drop(item) }
RECURSIVE drain_drop_rest(_, _)
drain_drop_rest(d, dr) ==
    LET n == drain_next(d, dr) IN
    IF n.self.ret = <<>> THEN [self |-> d, drain |-> dr]
    ELSE drain_drop_rest([n.self EXCEPT !.drops = Append(d.drops, n.self.ret[1]), !.ret = <<>>],
                         n.drain)

\* a destructor that closes the gap from where next() stopped
drain_drop_from_cursor(d0, dr0) ==
    LET rest == drain_drop_rest(d0, dr0)
        d == rest.self
        dr == rest.drain
        front_len == d.cap - dr.old_tail
        range_len == dr.range_end - dr0.start
    IN IF dr0.start < front_len THEN
           IF dr.range_end <= front_len THEN
               LET new_tail == d.cap - range_len IN
               [copy(d, dr.old_tail, new_tail, dr0.start) EXCEPT !.tail = new_tail]
           ELSE
               LET new_head == dr.old_head - (dr.range_end - front_len)
                   new_tail == d.cap - dr0.start
                   moved == copy(copy(d, dr.old_tail, new_tail, dr0.start),
                                 dr.range_end - front_len, 0, new_head)
               IN [moved EXCEPT !.head = new_head, !.tail = new_tail]
       ELSE
           LET end == dr.range_end - front_len
               start == dr0.start - front_len
           IN [copy(d, end, start, dr.old_head - end) EXCEPT !.head = dr.old_head - range_len]

drain_drop(d0, dr0) ==
    LET rest == drain_drop_rest(d0, dr0)
        d == rest.self
        dr == rest.drain
        front_len == d.cap - dr.old_tail
        range_len == dr.range_end - dr.range_start
    IN IF dr.range_start < front_len THEN
           IF dr.range_end <= front_len THEN
               LET new_tail == d.cap - range_len IN
               [copy(d, dr.old_tail, new_tail, dr.range_start) EXCEPT !.tail = new_tail]
           ELSE
               LET new_head == dr.old_head - (dr.range_end - front_len)
                   new_tail == d.cap - dr.range_start
                   moved == copy(copy(d, dr.old_tail, new_tail, dr.range_start),
                                 dr.range_end - front_len, 0, new_head)
               IN [moved EXCEPT !.head = new_head, !.tail = new_tail]
       ELSE
           LET end == dr.range_end - front_len
               start == dr.range_start - front_len
           IN [copy(d, end, start, dr.old_head - end) EXCEPT !.head = dr.old_head - range_len]

\* the loop of Drain::drop when the destructor of `bad` panics: the unwinding
\* leaves the loop at that element
RECURSIVE drain_drop_rest_unwind(_, _, _)
drain_drop_rest_unwind(d, dr, bad) ==
    LET n == drain_next(d, dr) IN
    IF n.self.ret = <<>> THEN [self |-> d, drain |-> dr]
    ELSE LET item == n.self.ret[1]
             dropped == [n.self EXCEPT !.drops = Append(d.drops, item), !.ret = <<>>]
         IN IF item = bad
            THEN [self |-> [dropped EXCEPT !.fault = [kind |-> "destructor panicked",
                                                      a |-> bad, b |-> 0]],
                  drain |-> n.drain]
            ELSE drain_drop_rest_unwind(dropped, n.drain, bad)

\* Drain::drop when the destructor of `bad` panics: nothing stands guard, the
\* rest of the destructor runs only if the loop came to its end
drain_drop_unwind(d0, dr0, bad) ==
    LET rest == drain_drop_rest_unwind(d0, dr0, bad) IN
    IF rest.self.fault # NoFault THEN rest.self
    ELSE drain_drop(rest.self, rest.drain)

\* ------------------------------------------------- conversion and drop
\* From<AltDeque<T>> for Vec<T>: ret is the Vec's contents, cap its capacity
\* From<AltDeque> for Vec that shrinks the allocation to the length
into_vec_shrunk(d) ==
    LET c == IF d.tail # d.cap
             THEN LET m == make_contiguous(d) IN copy(m, m.tail, 0, m.cap - m.tail)
             ELSE d
        f == shrink(c, len(c))
    IN [f EXCEPT !.ret = [i \in 1..len(f) |-> buf_read(f, i - 1)]]

into_vec(d) ==
    LET c == IF d.tail # d.cap
             THEN LET m == make_contiguous(d) IN copy(m, m.tail, 0, m.cap - m.tail)
             ELSE d
    IN [c EXCEPT !.ret = [i \in 1..len(c) |-> buf_read(c, i - 1)]]

\* Drop for AltDeque: the front slice, then the back slice (Dropper), then
\* RawVec frees the allocation
drop(d) ==
    [d EXCEPT !.drops = d.drops \o as_slices(d)[1] \o as_slices(d)[2],
              !.alloc = d.alloc + (IF d.cap = 0 THEN 0 ELSE 1)]

\* ------------------------------------------------------------ bookkeeping
Snapshot(d) == [head |-> d.head, tail |-> d.tail, cap |-> d.cap, buf |-> d.buf]

NoOther == Snapshot(with_capacity(0))

\* what a run that records its history keeps of x
Observed(x, blank) == IF observe THEN x ELSE blank

\* the slots outside both stacks hold nothing the program may read
Indeterminate(d) ==
    [d EXCEPT !.buf = [i \in 0..(d.cap - 1) |->
                          IF i >= d.head /\ i < d.tail THEN Uninit ELSE d.buf[i]]]

\* how often x occurs in the sequence s
Count(s, x) == Cardinality({i \in DOMAIN s : s[i] = x})

Bump(f, s) == [x \in Ids |-> IF f[x] + Count(s, x) > 2 THEN 2 ELSE f[x] + Count(s, x)]

NoOp == [name |-> "", args |-> <<>>]

NoBefore == [op |-> NoOp, pre |-> NoOther]

\* `before` in the runs that keep one operation of history or none
Untracked == [op |-> [name |-> "untracked", args |-> <<>>], pre |-> NoOther]

\* the rules of the memory model r's operation broke
UbOf(r) ==
    r.ub \cup (IF \E i \in DOMAIN r.drops : r.drops[i] = Uninit
              THEN {"drop of an uninitialised slot"} ELSE {})

\* `flips` in the runs that do not count the moves
NoFlips == <<>>

\* the element x lies at one offset in the deque d and at another in r
Relocated(d, r, x) ==
    \E i \in 0..(d.cap - 1), j \in 0..(r.cap - 1) :
        /\ i < d.head \/ i >= d.tail
        /\ j < r.head \/ j >= r.tail
        /\ d.buf[i] = x /\ r.buf[j] = x
        /\ i # j

\* The operation `name` turned the deque into r and handed `given` to the
\* caller.  Once an operation has broken the rules of the memory model the
\* behaviour of the program is undefined: the run ends in the phase
\* "aborted", with the buffer as the moves inside it left it and `ub`
\* naming the rules broken; no statement about the program holds there.
Commit(name, args, r, given, next_phase) ==
    /\ head' = r.head
    /\ tail' = r.tail
    /\ cap' = r.cap
    /\ buf' = IF next_phase = "draining" THEN r.buf ELSE Indeterminate(r).buf
    /\ ub' = UbOf(r)
    /\ phase' = IF UbOf(r) # {} THEN "aborted" ELSE next_phase
    /\ exits' = Bump(exits, given \o r.drops)
    /\ fault' = IF observe THEN r.fault ELSE NoFault
    /\ drops' = IF observe THEN r.drops ELSE <<>>
    /\ ret' = IF observe THEN r.ret ELSE <<>>
    /\ alloc' = IF observe THEN r.alloc ELSE 0
    /\ op' = IF observe THEN [name |-> name, args |-> args] ELSE NoOp
    /\ before' = IF before = Untracked THEN Untracked ELSE [op |-> op, pre |-> pre]
    /\ flips' = IF flips = NoFlips THEN NoFlips
                ELSE [x \in Ids |->
                         IF name \in {"pop_front", "pop_back"} /\ Relocated(self, r, x)
                         THEN Min(flips[x] + 1, 2) ELSE flips[x]]
    /\ UNCHANGED <<observe, lastId>>

Idle == phase = "idle"

\* ---------------------------------------------------------------- actions
PushBack ==
    /\ Idle /\ nextId <= lastId
    /\ Commit("push_back", <<nextId>>, push_back(self, nextId), <<>>, "idle")
    /\ nextId' = nextId + 1
    /\ pre' = Observed(Snapshot(self), NoOther)
    /\ ref' = Append(ref, nextId)
    /\ refret' = <<>>
    /\ other' = NoOther
    /\ drain' = NoDrain /\ yielded' = <<>>

PushFront ==
    /\ Idle /\ nextId <= lastId
    /\ Commit("push_front", <<nextId>>, push_front(self, nextId), <<>>, "idle")
    /\ nextId' = nextId + 1
    /\ pre' = Observed(Snapshot(self), NoOther)
    /\ ref' = <<nextId>> \o ref
    /\ refret' = <<>>
    /\ other' = NoOther
    /\ drain' = NoDrain /\ yielded' = <<>>

PopFront ==
    /\ Idle
    /\ LET r == pop_front(self) IN Commit("pop_front", <<>>, r, r.ret, "idle")
    /\ pre' = Observed(Snapshot(self), NoOther)
    /\ ref' = IF ref = <<>> THEN ref ELSE Tail(ref)
    /\ refret' = Observed(IF ref = <<>> THEN <<>> ELSE <<Head(ref)>>, <<>>)
    /\ other' = NoOther
    /\ drain' = NoDrain /\ yielded' = <<>>
    /\ UNCHANGED nextId

PopBack ==
    /\ Idle
    /\ LET r == pop_back(self) IN Commit("pop_back", <<>>, r, r.ret, "idle")
    /\ pre' = Observed(Snapshot(self), NoOther)
    /\ ref' = IF ref = <<>> THEN ref ELSE SubSeq(ref, 1, Len(ref) - 1)
    /\ refret' = Observed(IF ref = <<>> THEN <<>> ELSE <<ref[Len(ref)]>>, <<>>)
    /\ other' = NoOther
    /\ drain' = NoDrain /\ yielded' = <<>>
    /\ UNCHANGED nextId

\* an operation on the deque alone that is no push or pop
Step(name, args, r, given, next_phase) ==
    /\ Commit(name, args, r, given, next_phase)
    /\ pre' = Observed(Snapshot(self), NoOther)
    /\ ref' = iter(r)
    /\ refret' = <<>>
    /\ drain' = NoDrain /\ yielded' = <<>>

Insert ==
    /\ Idle /\ nextId <= lastId
    /\ \E index \in 0..(len(self) + 1) :
           Step("insert", <<index, nextId>>, insert(self, index, nextId), <<>>, "idle")
    /\ nextId' = nextId + 1
    /\ other' = NoOther

Remove ==
    /\ Idle
    /\ \E index \in 0..len(self) :
           LET r == remove(self, index) IN Step("remove", <<index>>, r, r.ret, "idle")
    /\ other' = NoOther
    /\ UNCHANGED nextId

\* get(index): ret holds the element referred to, or nothing for None
Get ==
    /\ Idle
    /\ \E index \in 0..(len(self) + 1) :
           Step("get", <<index>>,
                [self EXCEPT !.ret = IF get(self, index) # -1
                                     THEN <<buf_read(self, get(self, index))>> ELSE <<>>],
                <<>>, "idle")
    /\ other' = NoOther
    /\ UNCHANGED nextId

\* as_slices(): ret holds the pair of slices
AsSlices ==
    /\ Idle
    /\ Step("as_slices", <<>>, [self EXCEPT !.ret = as_slices(self)], <<>>, "idle")
    /\ other' = NoOther
    /\ UNCHANGED nextId

\* iter() run to its end: ret holds what it yielded
IterAll ==
    /\ Idle
    /\ Step("iter", <<>>, [self EXCEPT !.ret = iter(self)], <<>>, "idle")
    /\ other' = NoOther
    /\ UNCHANGED nextId

IndexGet ==
    /\ Idle
    /\ \E i \in 0..len(self) : Step("index", <<i>>, index_ref(self, i), <<>>, "idle")
    /\ other' = NoOther
    /\ UNCHANGED nextId

IndexMutGet ==
    /\ Idle
    /\ \E i \in 0..len(self) : Step("index_mut", <<i>>, index_mut(self, i), <<>>, "idle")
    /\ other' = NoOther
    /\ UNCHANGED nextId

Swap ==
    /\ Idle
    /\ \E i \in 0..len(self), j \in 0..len(self) :
           Step("swap", <<i, j>>, swap(self, i, j), <<>>, "idle")
    /\ other' = NoOther
    /\ UNCHANGED nextId

SwapRemoveFront ==
    /\ Idle
    /\ \E index \in 0..len(self) :
           LET r == swap_remove_front(self, index)
           IN Step("swap_remove_front", <<index>>, r, r.ret, "idle")
    /\ other' = NoOther
    /\ UNCHANGED nextId

SwapRemoveBack ==
    /\ Idle
    /\ \E index \in 0..len(self) :
           LET r == swap_remove_back(self, index)
           IN Step("swap_remove_back", <<index>>, r, r.ret, "idle")
    /\ other' = NoOther
    /\ UNCHANGED nextId

Truncate ==
    /\ Idle
    /\ \E n \in 0..(len(self) + 1) :
           Step("truncate", <<n>>, truncate(self, n), <<>>, "idle")
    /\ other' = NoOther
    /\ UNCHANGED nextId

\* a truncate during which the destructor of one element panics, if that
\* element is among the doomed
TruncateUnwind ==
    /\ Idle
    /\ \E n \in 0..(len(self) + 1), bad \in Range(iter(self)) :
           Step("truncate", <<n, bad>>, truncate_unwind(self, n, bad), <<>>, "idle")
    /\ other' = NoOther
    /\ UNCHANGED nextId

Retain ==
    /\ Idle
    /\ \E keep \in SUBSET Range(iter(self)) :
           Step("retain", <<keep>>, retain(self, keep), <<>>, "idle")
    /\ other' = NoOther
    /\ UNCHANGED nextId

Reserve ==
    /\ Idle
    /\ \E additional \in 0..MaxAdditional :
           /\ reserve(self, additional).cap <= MaxCap
           /\ Step("reserve", <<additional>>, reserve(self, additional), <<>>, "idle")
    /\ other' = NoOther
    /\ UNCHANGED nextId

ReserveExact ==
    /\ Idle
    /\ \E additional \in 0..MaxAdditional :
           /\ reserve_exact(self, additional).cap <= MaxCap
           /\ Step("reserve_exact", <<additional>>, reserve_exact(self, additional), <<>>, "idle")
    /\ other' = NoOther
    /\ UNCHANGED nextId

ShrinkTo ==
    /\ Idle
    /\ \E min_capacity \in 0..(cap + MaxAdditional) :
           Step("shrink_to", <<min_capacity>>, shrink_to(self, min_capacity), <<>>, "idle")
    /\ other' = NoOther
    /\ UNCHANGED nextId

ShrinkToFit ==
    /\ Idle
    /\ Step("shrink_to_fit", <<>>, shrink_to_fit(self), <<>>, "idle")
    /\ other' = NoOther
    /\ UNCHANGED nextId

MakeContiguous ==
    /\ Idle
    /\ Step("make_contiguous", <<>>, make_contiguous(self), <<>>, "idle")
    /\ other' = NoOther
    /\ UNCHANGED nextId

RotateLeft ==
    /\ Idle
    /\ \E mid \in 0..(len(self) + 1) :
           Step("rotate_left", <<mid>>, rotate_left(self, mid), <<>>, "idle")
    /\ other' = NoOther
    /\ UNCHANGED nextId

RotateRight ==
    /\ Idle
    /\ \E k \in 0..(len(self) + 1) :
           Step("rotate_right", <<k>>, rotate_right(self, k), <<>>, "idle")
    /\ other' = NoOther
    /\ UNCHANGED nextId

\* the elements of the deque split_off returns belong to the caller
SplitOff ==
    /\ Idle
    /\ \E at \in 0..(len(self) + 1) :
           LET r == split_off(self, at) IN
           /\ Step("split_off", <<at>>, r.self, iter(r.other), "idle")
           /\ other' = Observed(Snapshot(r.other), NoOther)
    /\ UNCHANGED nextId

\* AltDeque::from((front, back)): the elements first, first + 1, ... in
\* logical order, front_len of them in the front stack and back_len in the
\* back stack of a buffer that is full
from_tuple(front_len, back_len, first) ==
    LET c == front_len + back_len IN
    [with_capacity(c) EXCEPT
        !.head = back_len,
        !.tail = c - front_len,
        !.buf = [i \in 0..(c - 1) |->
                    IF i < back_len THEN first + front_len + i
                    ELSE first + (i - (c - front_len))]]

\* From<([T; N], [T; M])> with the arrays front and back
from_arrays(front, back) ==
    LET c == Len(front) + Len(back) IN
    [with_capacity(c) EXCEPT
        !.head = Len(back),
        !.tail = c - Len(front),
        !.buf = [i \in 0..(c - 1) |->
                    IF i < Len(back) THEN back[i + 1]
                    ELSE front[i - (c - Len(front)) + 1]]]

\* PartialEq::eq that skips the middle section when the front slices differ
\* in length
eq_no_mid(d, o) ==
    IF len(d) # len(o) THEN FALSE
    ELSE LET sa == as_slices(d)[1]
             sb == as_slices(d)[2]
             oa == as_slices(o)[1]
             ob == as_slices(o)[2]
         IN IF Len(sa) = Len(oa) THEN sa = oa /\ sb = ob
            ELSE IF Len(sa) < Len(oa) THEN
                LET front == Len(sa)
                    mid == Len(oa) - front
                IN /\ sa = Slice(oa, 0, front)
                   /\ Slice(sb, mid, Len(sb)) = ob
            ELSE
                LET front == Len(oa)
                    mid == Len(sa) - front
                IN /\ Slice(sa, 0, front) = oa
                   /\ sb = Slice(ob, mid, Len(ob))

\* PartialEq::eq
eq(d, o) ==
    IF len(d) # len(o) THEN FALSE
    ELSE LET sa == as_slices(d)[1]
             sb == as_slices(d)[2]
             oa == as_slices(o)[1]
             ob == as_slices(o)[2]
         IN IF Len(sa) = Len(oa) THEN sa = oa /\ sb = ob
            ELSE IF Len(sa) < Len(oa) THEN
                LET front == Len(sa)
                    mid == Len(oa) - front
                    oa_front == Slice(oa, 0, front)
                    oa_mid == Slice(oa, front, Len(oa))
                    sb_mid == Slice(sb, 0, mid)
                    sb_back == Slice(sb, mid, Len(sb))
                IN sa = oa_front /\ sb_mid = oa_mid /\ sb_back = ob
            ELSE
                LET front == Len(oa)
                    mid == Len(sa) - front
                    sa_front == Slice(sa, 0, front)
                    sa_mid == Slice(sa, front, Len(sa))
                    ob_mid == Slice(ob, 0, mid)
                    ob_back == Slice(ob, mid, Len(ob))
                IN sa_front = oa /\ sa_mid = ob_mid /\ sb = ob_back

\* Hash::hash: what the hasher is fed, write_usize(len) first
hash(d) == <<len(d)>> \o iter(d)

\* the arrays a caller may build the second deque from
Arrays == UNION {[1..k -> 1..MaxEqLen] : k \in 0..MaxEqLen}

\* self == o for a second deque o built from (front, back) with `slack`
\* free slots
Eq ==
    /\ Idle
    /\ \E front \in Arrays, back \in Arrays, slack \in 0..1 :
           LET o == Indeterminate(reserve_exact(from_arrays(front, back), slack)) IN
           /\ Len(front) + Len(back) <= MaxEqLen
           /\ Step("eq", <<front, back, slack>>, [self EXCEPT !.ret = <<eq(self, o)>>],
                   <<>>, "idle")
           /\ other' = Observed(Snapshot(o), NoOther)
    /\ UNCHANGED nextId

\* both deques hashed: ret holds what each fed its hasher
Hash ==
    /\ Idle
    /\ \E front \in Arrays, back \in Arrays, slack \in 0..1 :
           LET o == Indeterminate(reserve_exact(from_arrays(front, back), slack)) IN
           /\ Len(front) + Len(back) <= MaxEqLen
           /\ Step("hash", <<front, back, slack>>,
                   [self EXCEPT !.ret = <<hash(self), hash(o)>>], <<>>, "idle")
           /\ other' = Observed(Snapshot(o), NoOther)
    /\ UNCHANGED nextId

\* From<Vec<T>> for AltDeque: the Vec's allocation of `capacity` slots, its
\* elements in the first slots, taken over as it is
from_vec(elems, vec_capacity) ==
    [head |-> Len(elems), tail |-> vec_capacity, cap |-> vec_capacity,
     buf |-> [i \in 0..(vec_capacity - 1) |-> IF i < Len(elems) THEN elems[i + 1] ELSE Uninit],
     ub |-> {}, fault |-> NoFault, drops |-> <<>>, ret |-> <<>>, alloc |-> 0]

\* the same deque after reserve_exact(slack): `slack` free slots between
\* the stacks
Layout(front_len, back_len, slack, first) ==
    Indeterminate(reserve_exact(from_tuple(front_len, back_len, first), slack))

Append_ ==
    /\ Idle
    /\ \E front_len \in 0..MaxOther, back_len \in 0..MaxOther, slack \in 0..1 :
           LET o == Layout(front_len, back_len, slack, nextId)
               r == append(self, o)
           IN /\ front_len + back_len <= MaxOther
              /\ nextId + front_len + back_len <= lastId + 1
              /\ r.self.cap <= MaxCap
              /\ Step("append", <<Snapshot(o)>>, r.self, <<>>, "idle")
              /\ other' = Observed(Snapshot(r.other), NoOther)
              /\ nextId' = nextId + front_len + back_len

Extend ==
    /\ Idle
    /\ \E n \in 1..MaxOther :
           LET items == [k \in 1..n |-> nextId + k - 1]
               r == extend(self, items)
           IN /\ nextId + n <= lastId + 1
              /\ r.cap <= MaxCap
              /\ Step("extend", <<items>>, r, <<>>, "idle")
              /\ nextId' = nextId + n
    /\ other' = NoOther

\* the iterator goes away before the next call
RangeIter ==
    /\ Idle
    /\ \E start \in 0..(len(self) + 1), end \in 0..(len(self) + 1) :
           Step("range", <<start, end>>, range(self, start, end), <<>>, "idle")
    /\ other' = NoOther
    /\ UNCHANGED nextId

RangeMutIter ==
    /\ Idle
    /\ \E start \in 0..(len(self) + 1), end \in 0..(len(self) + 1) :
           Step("range_mut", <<start, end>>, range_mut(self, start, end), <<>>, "idle")
    /\ other' = NoOther
    /\ UNCHANGED nextId

DrainStart ==
    /\ Idle
    /\ \E start \in 0..(len(self) + 1), end \in 0..(len(self) + 1) :
           LET r == drain_new(self, start, end) IN
           /\ Commit("drain", <<start, end>>, r.self, <<>>,
                     IF r.self.fault = NoFault THEN "draining" ELSE "idle")
           /\ drain' = r.drain
    /\ pre' = Observed(Snapshot(self), NoOther)
    /\ yielded' = <<>>
    /\ ref' = iter(self)
    /\ refret' = <<>>
    /\ other' = NoOther
    /\ UNCHANGED nextId

DrainNext ==
    /\ phase = "draining"
    /\ LET r == drain_next(self, drain) IN
       /\ Commit("next", <<>>, r.self, r.self.ret, "draining")
       /\ drain' = r.drain
       /\ yielded' = Observed(yielded \o r.self.ret, <<>>)
    /\ UNCHANGED <<pre, ref, refret, nextId, other>>

DrainNextBack ==
    /\ phase = "draining"
    /\ LET r == drain_next_back(self, drain) IN
       /\ Commit("next_back", <<>>, r.self, r.self.ret, "draining")
       /\ drain' = r.drain
       /\ yielded' = Observed(yielded \o r.self.ret, <<>>)
    /\ UNCHANGED <<pre, ref, refret, nextId, other>>

DrainDrop ==
    /\ phase = "draining"
    /\ LET r == drain_drop(self, drain) IN
       /\ Commit("drain_drop", <<drain.range_start, drain.range_end>>, r, <<>>, "idle")
       /\ ref' = iter(r)
    /\ refret' = <<>>
    /\ drain' = Observed(drain, NoDrain)
    /\ yielded' = Observed(yielded, <<>>)
    /\ UNCHANGED <<pre, nextId, other>>

\* the Drain is dropped and the destructor of one element panics, if that
\* element is among those the Drain still has to destroy
DrainDropUnwind ==
    /\ phase = "draining"
    /\ \E bad \in Range(iter(pre)) :
           LET r == drain_drop_unwind(self, drain, bad) IN
           /\ Commit("drain_drop", <<drain.range_start, drain.range_end, bad>>, r, <<>>, "idle")
           /\ ref' = iter(r)
    /\ refret' = <<>>
    /\ drain' = Observed(drain, NoDrain)
    /\ yielded' = Observed(yielded, <<>>)
    /\ UNCHANGED <<pre, nextId, other>>

\* mem::forget(drain): the Drain goes away and its destructor does not run
DrainForget ==
    /\ phase = "draining"
    /\ Commit("forget", <<drain.range_start, drain.range_end>>, self, <<>>, "idle")
    /\ ref' = iter(self)
    /\ refret' = <<>>
    /\ drain' = Observed(drain, NoDrain)
    /\ yielded' = Observed(yielded, <<>>)
    /\ UNCHANGED <<pre, nextId, other>>

\* Vec::from(deque): the elements now belong to the Vec
IntoVec ==
    /\ Idle
    /\ LET r == into_vec(self) IN Step("into_vec", <<>>, r, r.ret, "vec")
    /\ other' = NoOther
    /\ UNCHANGED nextId

\* the deque goes out of scope
Drop ==
    /\ Idle
    /\ Step("drop", <<>>, drop(self), <<>>, "dropped")
    /\ other' = NoOther
    /\ UNCHANGED nextId

\* ------------------------------------------------------- specifications
\* the deque d, just built, with `n` elements created so far
Start(d, name, args, n, last, obs) ==
    /\ head = d.head /\ tail = d.tail /\ cap = d.cap /\ buf = d.buf
    /\ ub = {} /\ fault = NoFault /\ drops = <<>> /\ ret = <<>>
    /\ alloc = IF obs THEN d.alloc ELSE 0
    /\ phase = "idle" /\ drain = NoDrain /\ yielded = <<>>
    /\ op = IF obs THEN [name |-> name, args |-> args] ELSE NoOp
    /\ pre = NoOther
    /\ other = NoOther
    /\ nextId = n + 1
    /\ lastId = last
    /\ exits = [x \in Ids |-> 0]
    /\ observe = obs
    /\ ref = iter(d)
    /\ refret = <<>>

\* AltDeque::with_capacity(c)
InitQueue ==
    /\ \E c \in 0..MaxInitCap : Start(with_capacity(c), "with_capacity", <<c>>, 0, MaxPushed, TRUE)
    /\ before = Untracked /\ flips = NoFlips

\* the same, in a run that keeps no history
Init ==
    /\ \E c \in 0..MaxInitCap : Start(with_capacity(c), "with_capacity", <<c>>, 0, MaxId, FALSE)
    /\ before = Untracked /\ flips = NoFlips

\* every deque built from a tuple of arrays and given `slack` free slots
EveryLayout(max_len, max_slack, inserts) ==
    \E front_len \in 0..max_len, back_len \in 0..max_len, slack \in 0..max_slack :
        /\ front_len + back_len <= max_len
        /\ Start(Layout(front_len, back_len, slack, 1), "from",
                 <<front_len, back_len, slack>>, front_len + back_len,
                 front_len + back_len + inserts, TRUE)

Layouts(max_len, max_slack, inserts) ==
    EveryLayout(max_len, max_slack, inserts) /\ before = Untracked /\ flips = NoFlips

\* the same, in a run that keeps two operations of history
InitTwoCalls ==
    EveryLayout(MaxLen, MaxSlack, MaxInsert) /\ before = NoBefore /\ flips = NoFlips

\* AltDeque::with_capacity(c), in a run that counts the moves of each element
InitFifo ==
    /\ \E c \in 0..MaxInitCap : Start(with_capacity(c), "with_capacity", <<c>>, 0, MaxPushed, TRUE)
    /\ before = Untracked /\ flips = [x \in Ids |-> 0]

\* push_back and pop_front alone: the deque used as a queue
NextFifo == PushBack \/ PopFront

SpecFifo == InitFifo /\ [][NextFifo]_vars

InitLayout == Layouts(MaxLen, MaxSlack, MaxInsert)

InitWide == Layouts(MaxWideLen, MaxWideSlack, 0)

\* every layout, and the elements of a second deque still to create
InitPair == Layouts(MaxLen, MaxSlack, MaxOther)

\* push and pop alone, beside the reference queue
NextQueue == PushBack \/ PushFront \/ PopBack \/ PopFront

SpecQueue == InitQueue /\ [][NextQueue]_vars

Next ==
    \/ PushBack \/ PushFront \/ PopBack \/ PopFront
    \/ Insert \/ Remove \/ Swap \/ SwapRemoveFront \/ SwapRemoveBack
    \/ Truncate \/ Retain \/ Reserve \/ ReserveExact \/ ShrinkTo
    \/ MakeContiguous \/ RotateLeft \/ RotateRight \/ SplitOff \/ Append_
    \/ DrainStart \/ DrainNext \/ DrainNextBack \/ DrainDrop
    \/ IntoVec \/ Drop

\* every operation, from with_capacity, without history
Spec == Init /\ [][Next]_vars

NextDrain == DrainStart \/ DrainNext \/ DrainNextBack \/ DrainDrop

\* drain, from every layout
SpecDrain == InitLayout /\ [][NextDrain]_vars

NextContiguous == MakeContiguous \/ IntoVec

\* make_contiguous and the conversion into a Vec, from every layout
SpecContiguous == InitWide /\ [][NextContiguous]_vars

NextIndexed == Insert \/ Remove

\* insert and remove, from every layout
SpecIndexed == InitLayout /\ [][NextIndexed]_vars

NextRotate == RotateLeft \/ RotateRight

\* rotate_left and rotate_right, from every layout
SpecRotate == InitLayout /\ [][NextRotate]_vars

NextSplit == SplitOff

\* split_off, from every layout
SpecSplit == InitLayout /\ [][NextSplit]_vars

NextAppend == Append_

\* append, from every layout and with every layout of the other deque
SpecAppend == InitPair /\ [][NextAppend]_vars

NextTruncate == Truncate

\* truncate, from every layout
SpecTruncate == InitLayout /\ [][NextTruncate]_vars

NextRetain == Retain

\* retain, from every layout
SpecRetain == InitLayout /\ [][NextRetain]_vars

NextRange == DrainStart \/ RangeIter \/ RangeMutIter

\* the calls that take a range, from every layout
SpecRange == InitLayout /\ [][NextRange]_vars

\* no call was made on the deque since it was built
FirstCall == op.name = "from"

NextFault ==
    \/ FirstCall /\ Insert
    \/ FirstCall /\ Swap
    \/ FirstCall /\ SplitOff
    \/ FirstCall /\ RotateLeft
    \/ FirstCall /\ RotateRight
    \/ FirstCall /\ IndexGet
    \/ FirstCall /\ IndexMutGet

\* one call that takes an index and faults when it is out of range, on
\* every layout
SpecFault == InitLayout /\ [][NextFault]_vars

\* ------------------------------------------------------------ properties
\* C1: from an empty deque of any initial capacity, after every push_back,
\* push_front, pop_back and pop_front the logical sequence (front stack, then
\* back stack) is the content of the reference double-ended queue driven by
\* the same calls, and every pop returned what the reference queue returned
\* (None when it was empty); no call broke a rule of the memory model.
C1_QueueRefinement ==
    /\ ub = {}
    /\ fault = NoFault
    /\ iter(self) = ref
    /\ op.name \in {"pop_front", "pop_back"} => ret = refret

\* a pop_front that found the front stack empty, moved two or more elements
\* of the back stack over and returned the first of them
C1_Witness ==
    /\ op.name = "pop_front"
    /\ pre.tail = pre.cap /\ pre.head >= 3
    /\ ret = refret /\ ret = <<pre.buf[0]>>
    /\ Len(ref) = pre.head - 1

\* C2: in the initial state and after every operation, 0 <= head <= tail <=
\* capacity, so len() = capacity - tail + head is at most capacity() and is
\* the sum of the lengths of the two slices as_slices() returns.
C2_HeadTailCap ==
    /\ 0 <= head /\ head <= tail /\ tail <= capacity(self)
    /\ len(self) = capacity(self) - tail + head
    /\ len(self) <= capacity(self)
    /\ len(self) = Len(as_slices(self)[1]) + Len(as_slices(self)[2])
    /\ Len(iter(self)) = len(self)

\* every element the run may create was created, and the deque still holds
\* some in each stack with free slots between them
C2_Witness ==
    /\ phase = "idle" /\ nextId > lastId
    /\ 0 < head /\ head < tail /\ tail < cap
    /\ len(self) = Len(as_slices(self)[1]) + Len(as_slices(self)[2])

\* C3: over any sequence of operations that ends with the deque destroyed,
\* every element ever stored was handed back to the caller or destroyed
\* exactly once; between operations the live regions [0, head) and [tail,
\* capacity) hold exactly the elements that have neither been handed back
\* nor destroyed, each of them once.
C3_ExactlyOnce ==
    ub = {} =>
        /\ phase \in {"dropped", "vec"} => \A x \in 1..(nextId - 1) : exits[x] = 1
        /\ phase = "idle" =>
               /\ \A x \in 1..(nextId - 1) :
                      /\ exits[x] <= 1
                      /\ exits[x] = 0 <=> x \in Range(iter(self))
               /\ \A i, j \in DOMAIN iter(self) :
                      /\ iter(self)[i] # Uninit
                      /\ i # j => iter(self)[i] # iter(self)[j]

\* the sequence s without its elements at the indices from..to-1
RemoveRange(s, from, to) == Slice(s, 0, from) \o Slice(s, to, Len(s))

\* C4: for every layout and every range start..end with start <= end <=
\* len(), once the Drain that drain(start..end) returned has been dropped the
\* logical sequence is the original one without its elements at the indices
\* start..end-1, the others in their order, and len() is smaller by end - start.
C4_DrainRemovesRange ==
    (op.name = "drain_drop" /\ phase = "idle") =>
        /\ iter(self) = RemoveRange(iter(pre), drain.range_start, drain.range_end)
        /\ len(self) = len(pre) - (drain.range_end - drain.range_start)

\* C7: a Drain over start..end yields through next() the original elements
\* at the indices start, start + 1, ... and through next_back() those at
\* end - 1, end - 2, ...; under every interleaving of the two no element is
\* yielded twice, none from outside the range, both return None exactly when
\* end - start elements were yielded, and size_hint is the number of
\* elements not yet yielded.
C7_DrainYields ==
    phase = "draining" =>
        LET original == iter(pre)
            in_range == Slice(original, drain.range_start, drain.range_end)
            total == drain.range_end - drain.range_start
        IN /\ ub = {}
           /\ drain.range_start <= drain.start /\ drain.start <= drain.end
           /\ drain.end <= drain.range_end
           /\ Len(yielded) = (drain.start - drain.range_start)
                                + (drain.range_end - drain.end)
           /\ \A i, j \in DOMAIN yielded : i # j => yielded[i] # yielded[j]
           /\ Range(yielded) \subseteq Range(in_range)
           /\ Uninit \notin Range(yielded)
           /\ drain_size_hint(drain) = total - Len(yielded)
           /\ (op.name = "next" /\ ret # <<>>) =>
                  /\ ret = <<original[drain.start]>>
                  /\ yielded[Len(yielded)] = ret[1]
           /\ (op.name = "next_back" /\ ret # <<>>) =>
                  /\ ret = <<original[drain.end + 1]>>
                  /\ yielded[Len(yielded)] = ret[1]
           /\ (op.name \in {"next", "next_back"} /\ ret = <<>>) =>
                  /\ Len(yielded) = total
                  /\ Range(yielded) = Range(in_range)
           /\ (op.name \in {"next", "next_back"} /\ Len(yielded) < total) => ret # <<>>
           /\ drain_next(self, drain).self.ret = <<>> <=> Len(yielded) = total
           /\ drain_next_back(self, drain).self.ret = <<>> <=> Len(yielded) = total

\* a range over both stacks, drained from both ends in turn until
\* next_back() returned None
C7_Witness ==
    /\ phase = "draining" /\ op.name = "next_back" /\ ret = <<>>
    /\ drain.range_start > 0
    /\ drain.range_start < pre.cap - pre.tail
    /\ drain.range_end > pre.cap - pre.tail + 1
    /\ Len(yielded) = 3
    /\ yielded[1] = iter(pre)[drain.range_start + 1]
    /\ yielded[2] = iter(pre)[drain.range_end]
    /\ yielded[3] = iter(pre)[drain.range_start + 2]

\* C8: dropping a Drain that has yielded some or none of the elements of its
\* range leaves head, tail and the logical sequence as dropping it after it
\* has yielded all of them does, and destroys, once each, the elements of
\* the range it has not yielded.
C8_DrainDropPartial ==
    (op.name = "drain_drop" /\ phase = "idle") =>
        LET drained == [self EXCEPT !.head = 0, !.tail = pre.cap, !.cap = pre.cap,
                                    !.buf = pre.buf]
            consumed == Indeterminate(drain_drop(drained, [drain EXCEPT !.start = drain.end]))
        IN /\ consumed.ub = {}
           /\ head = consumed.head
           /\ tail = consumed.tail
           /\ cap = consumed.cap
           /\ iter(self) = iter(consumed)
           /\ consumed.drops = <<>>
           /\ drops = Slice(iter(pre), drain.start, drain.end)
           /\ Range(drops) \cap Range(yielded) = {}
           /\ \A i, j \in DOMAIN drops : i # j => drops[i] # drops[j]

\* a Drain over both stacks dropped after next() and next_back() yielded one
\* element each and one was left
C8_Witness ==
    /\ op.name = "drain_drop" /\ phase = "idle"
    /\ drain.range_start < pre.cap - pre.tail
    /\ drain.range_end > pre.cap - pre.tail
    /\ Len(yielded) = 2 /\ Len(drops) = 1
    /\ drain.start = drain.range_start + 1
    /\ drain.end = drain.range_end - 1
    /\ len(self) > 0

\* C5: for every layout (every front-stack length, back-stack length and
\* number of free slots, also fewer free slots than either stack has
\* elements, and none), make_contiguous() returns a slice equal to the
\* logical sequence before the call and leaves the logical sequence and the
\* length as they were.
C5_MakeContiguous ==
    op.name = "make_contiguous" =>
        /\ ub = {} /\ fault = NoFault
        /\ ret = iter(pre)
        /\ iter(self) = iter(pre)
        /\ len(self) = len(pre)

\* C6: for every layout, the Vec an AltDeque is converted into holds the
\* logical sequence in order, has the deque's length and capacity, and no
\* allocation takes place.
C6_IntoVec ==
    op.name = "into_vec" =>
        /\ ub = {} /\ fault = NoFault
        /\ ret = iter(pre)
        /\ Len(ret) = len(pre)
        /\ cap = pre.cap
        /\ alloc = 0

\* the sequence s with v at the index i and the elements from i on after it
InsertAt(s, i, v) == Slice(s, 0, i) \o <<v>> \o Slice(s, i, Len(s))

\* C9: for every layout, every index i <= len() and every value v,
\* insert(i, v) makes the logical sequence s[0..i] ++ [v] ++ s[i..] and len()
\* one larger, also when the deque is full and grows first, when i is the
\* length of the front stack and when i is len().
C9_Insert ==
    (op.name = "insert" /\ op.args[1] <= len(pre)) =>
        /\ ub = {} /\ fault = NoFault /\ drops = <<>>
        /\ iter(self) = InsertAt(iter(pre), op.args[1], op.args[2])
        /\ len(self) = len(pre) + 1

\* an insert at the end of the front stack of a full deque with elements in
\* both stacks, which grew first
C9_Witness ==
    /\ op.name = "insert" /\ phase = "idle"
    /\ pre.head = pre.tail /\ pre.head >= 2
    /\ op.args[1] = pre.cap - pre.tail /\ op.args[1] >= 2
    /\ alloc = 1 /\ cap > pre.cap
    /\ iter(self)[op.args[1] + 1] = op.args[2]
    /\ len(self) = len(pre) + 1

\* C10: for every layout, remove(i) with i < len() returns the element at
\* the index i and leaves the others in their order, len() one smaller; with
\* i >= len() it returns None and leaves head, tail, the capacity and every
\* element as they were.
C10_Remove ==
    op.name = "remove" =>
        /\ ub = {} /\ fault = NoFault /\ drops = <<>>
        /\ op.args[1] < len(pre) =>
               /\ ret = <<iter(pre)[op.args[1] + 1]>>
               /\ iter(self) = RemoveRange(iter(pre), op.args[1], op.args[1] + 1)
               /\ len(self) = len(pre) - 1
        /\ op.args[1] >= len(pre) =>
               /\ ret = <<>>
               /\ head = pre.head /\ tail = pre.tail /\ cap = pre.cap
               /\ buf = Indeterminate(pre).buf
               /\ iter(self) = iter(pre)

\* a remove from the middle of the front stack of a deque with elements in
\* both stacks
C10_Witness ==
    /\ op.name = "remove" /\ phase = "idle"
    /\ pre.head >= 1 /\ pre.cap - pre.tail >= 3
    /\ op.args[1] = 1
    /\ ret = <<iter(pre)[2]>>
    /\ len(self) = len(pre) - 1

\* the sequence s with its first mid elements moved to the end
Rotated(s, mid) == Slice(s, mid, Len(s)) \o Slice(s, 0, mid)

\* C11: for every layout and every amount from 0 to len(), rotate_left(mid)
\* makes the logical sequence s[mid..] ++ s[..mid] and rotate_right(k) makes
\* it s[len-k..] ++ s[..len-k]; the amounts 0 and len() leave it unchanged.
C11_Rotate ==
    (op.name \in {"rotate_left", "rotate_right"} /\ op.args[1] <= len(pre)) =>
        /\ ub = {} /\ fault = NoFault /\ drops = <<>>
        /\ len(self) = len(pre)
        /\ op.name = "rotate_left" => iter(self) = Rotated(iter(pre), op.args[1])
        /\ op.name = "rotate_right" => iter(self) = Rotated(iter(pre), len(pre) - op.args[1])
        /\ op.args[1] \in {0, len(pre)} => iter(self) = iter(pre)

\* a rotate_right that took elements of both stacks to the front
C11_Witness ==
    /\ op.name = "rotate_right" /\ phase = "idle"
    /\ pre.head >= 1 /\ pre.cap - pre.tail >= 2
    /\ op.args[1] = pre.head + 1
    /\ iter(self) = Rotated(iter(pre), len(pre) - op.args[1])
    /\ iter(self) # iter(pre)

\* C12: for every layout and every at from 0 to len(), split_off(at) leaves
\* self with the logical sequence s[..at] and its capacity, and returns a
\* deque whose logical sequence is s[at..], all of it in the front stack
\* (the back stack is empty).
C12_SplitOff ==
    (op.name = "split_off" /\ op.args[1] <= len(pre)) =>
        /\ ub = {} /\ fault = NoFault /\ drops = <<>>
        /\ iter(self) = Slice(iter(pre), 0, op.args[1])
        /\ iter(other) = Slice(iter(pre), op.args[1], len(pre))
        /\ other.head = 0
        /\ as_slices(other)[2] = <<>>
        /\ as_slices(other)[1] = Slice(iter(pre), op.args[1], len(pre))
        /\ other.tail <= other.cap
        /\ cap = pre.cap

\* a split inside the front stack of a deque with elements in both stacks
C12_Witness ==
    /\ op.name = "split_off" /\ phase = "idle"
    /\ pre.head >= 2 /\ pre.cap - pre.tail >= 2
    /\ op.args[1] = 1
    /\ Len(iter(self)) = 1 /\ Len(iter(other)) = len(pre) - 1
    /\ other.head = 0

\* C13: for every layout of self and of other, append(other) makes the
\* logical sequence of self s ++ o: the front stack of self is unchanged, the
\* elements of other (front stack, then back stack) follow the back stack of
\* self, and other is left empty (head = 0, tail = its capacity).
C13_Append ==
    op.name = "append" =>
        LET o == op.args[1] IN
        /\ ub = {} /\ fault = NoFault /\ drops = <<>>
        /\ iter(self) = iter(pre) \o iter(o)
        /\ as_slices(self)[1] = as_slices(pre)[1]
        /\ as_slices(self)[2] = as_slices(pre)[2] \o as_slices(o)[1] \o as_slices(o)[2]
        /\ other.head = 0 /\ other.tail = other.cap /\ other.cap = o.cap
        /\ iter(other) = <<>>

\* an append of a deque with elements in both stacks to a full deque with
\* elements in both stacks, which grew
C13_Witness ==
    /\ op.name = "append" /\ phase = "idle"
    /\ pre.head = pre.tail /\ pre.head >= 1 /\ pre.cap - pre.tail >= 1
    /\ op.args[1].head >= 1 /\ op.args[1].cap - op.args[1].tail >= 1
    /\ cap > pre.cap
    /\ len(self) = len(pre) + 2
    /\ other.head = 0 /\ other.tail = other.cap

\* C14: for every layout and every n <= len(), truncate(n) keeps the first n
\* elements in their order and destroys each element at an index >= n once;
\* with n at most the length of the front stack the back stack ends empty
\* (head = 0) and the elements kept are the front stack, which ends at the
\* capacity; with n > len() nothing changes.
C14_Truncate ==
    op.name = "truncate" =>
        LET n == op.args[1]
            front_len == pre.cap - pre.tail
        IN /\ ub = {} /\ fault = NoFault
           /\ cap = pre.cap
           /\ n <= len(pre) =>
                  /\ iter(self) = Slice(iter(pre), 0, n)
                  /\ drops = Slice(iter(pre), n, len(pre))
                  /\ \A i, j \in DOMAIN drops : i # j => drops[i] # drops[j]
                  /\ Range(drops) \cap Range(iter(self)) = {}
           /\ (n <= len(pre) /\ n <= front_len) =>
                  /\ head = 0 /\ tail = cap - n
                  /\ as_slices(self)[1] = Slice(iter(pre), 0, n)
           /\ (n <= len(pre) /\ n > front_len) =>
                  /\ tail = pre.tail /\ head = n - front_len
           /\ n > len(pre) =>
                  /\ head = pre.head /\ tail = pre.tail
                  /\ buf = Indeterminate(pre).buf
                  /\ drops = <<>>

\* a truncate inside the front stack of a deque with elements in both
\* stacks, which destroyed elements of both
C14_Witness ==
    /\ op.name = "truncate" /\ phase = "idle"
    /\ op.args[1] = 1
    /\ pre.cap - pre.tail >= 2 /\ pre.head >= 2
    /\ head = 0 /\ tail = cap - 1
    /\ Len(drops) = len(pre) - 1

\* the elements of s that are in `keep`, in their order
Kept(s, keep) == SelectSeq(s, LAMBDA x : x \in keep)

\* C15: retain calls the predicate once for every element, in logical order
\* from front to back; afterwards the deque holds the elements the predicate
\* accepted, in their original order, and every element it rejected has
\* been destroyed once.
C15_Retain ==
    op.name = "retain" =>
        LET keep == op.args[1] IN
        /\ ub = {} /\ fault = NoFault
        /\ ret = iter(pre)
        /\ iter(self) = Kept(iter(pre), keep)
        /\ Range(drops) = Range(iter(pre)) \ keep
        /\ Len(drops) = len(pre) - len(self)
        /\ \A i, j \in DOMAIN drops : i # j => drops[i] # drops[j]
        /\ cap = pre.cap

\* a retain over both stacks that rejected the second and the fourth of
\* four elements
C15_Witness ==
    /\ op.name = "retain" /\ phase = "idle"
    /\ len(pre) = 4 /\ pre.head = 2
    /\ iter(self) = <<iter(pre)[1], iter(pre)[3]>>
    /\ Range(drops) = {iter(pre)[2], iter(pre)[4]}
    /\ ret = iter(pre)

\* C16: drain, range and range_mut fault when the start of the range is
\* greater than its end or its end is greater than len(), and at the fault
\* head, tail and every slot of the buffer are as before the call.
C16_RangeFault ==
    op.name \in {"drain", "range", "range_mut"} =>
        LET start == op.args[1]
            end == op.args[2]
        IN /\ ub = {}
           /\ (start > end \/ end > len(pre)) =>
                  /\ fault.kind \in {"range end should be <= length",
                                      "range start should be <= range end"}
                  /\ phase = "idle"
                  /\ head = pre.head /\ tail = pre.tail /\ cap = pre.cap
                  /\ buf = pre.buf
                  /\ drops = <<>> /\ ret = <<>> /\ alloc = 0
           /\ (start <= end /\ end <= len(pre)) => fault = NoFault

\* a drain whose start is inside the deque and greater than its end, on a
\* deque with elements in both stacks
C16_Witness ==
    /\ op.name = "drain" /\ phase = "idle"
    /\ op.args[1] = 2 /\ op.args[2] = 1
    /\ pre.head >= 1 /\ pre.cap - pre.tail >= 2
    /\ fault.kind = "range start should be <= range end"
    /\ head = pre.head /\ tail = pre.tail /\ buf = pre.buf

\* the index of the last call that is out of range, or -1
Offending ==
    LET n == len(pre) IN
    IF op.name \in {"insert", "split_off", "rotate_left", "rotate_right"}
    THEN (IF op.args[1] > n THEN op.args[1] ELSE -1)
    ELSE IF op.name \in {"index", "index_mut"}
    THEN (IF op.args[1] >= n THEN op.args[1] ELSE -1)
    ELSE IF op.name = "swap"
    THEN (IF op.args[1] >= n THEN op.args[1]
          ELSE IF op.args[2] >= n THEN op.args[2] ELSE -1)
    ELSE -1

\* shrink_to alone, on every layout
NextShrink == ShrinkTo

SpecShrink == InitLayout /\ [][NextShrink]_vars

\* reserve and reserve_exact alone, on every layout
NextReserve == Reserve \/ ReserveExact

SpecReserve == InitLayout /\ [][NextReserve]_vars

\* the reading operations, between pushes and pops that change the stacks
NextRead == Get \/ AsSlices \/ IterAll \/ PushFront \/ PushBack \/ PopFront \/ PopBack

SpecRead == InitLayout /\ [][NextRead]_vars

\* one comparison or one hashing of every layout with a second deque
NextEq == (FirstCall /\ Eq) \/ (FirstCall /\ Hash)

SpecEq == InitLayout /\ [][NextEq]_vars

\* a deque made from a Vec of up to MaxEqLen elements with up to MaxSlack
\* spare slots
InitVec ==
    \E elems \in Arrays, spare \in 0..MaxSlack :
        /\ Start(from_vec(elems, Len(elems) + spare), "from_vec",
                 <<elems, Len(elems) + spare>>, MaxEqLen, MaxEqLen, TRUE)
        /\ before = Untracked /\ flips = NoFlips

\* the conversion straight back
NextVec == op.name = "from_vec" /\ IntoVec

SpecVec == InitVec /\ [][NextVec]_vars

\* every layout with a back stack that is not empty
InitBack == InitWide /\ head >= 1

\* make_contiguous, again and again
NextTwice == MakeContiguous

SpecTwice == InitBack /\ [][NextTwice]_vars

\* an insert and, straight after it, a remove
NextInsertRemove == (FirstCall /\ Insert) \/ (op.name = "insert" /\ Remove)

SpecInsertRemove == InitTwoCalls /\ [][NextInsertRemove]_vars

\* a rotate_left and, straight after it, a rotate_right
NextRotateBack == (FirstCall /\ RotateLeft) \/ (op.name = "rotate_left" /\ RotateRight)

SpecRotateBack == InitTwoCalls /\ [][NextRotateBack]_vars

\* swap_remove_front and swap_remove_back alone, on every layout
NextSwapRemove == SwapRemoveFront \/ SwapRemoveBack

SpecSwapRemove == InitLayout /\ [][NextSwapRemove]_vars

\* a Drain that is leaked in the end
NextLeak == DrainStart \/ DrainNext \/ DrainNextBack \/ DrainForget

SpecLeak == InitLayout /\ [][NextLeak]_vars

\* pop_front and pop_back alone, on every layout
NextPop == PopFront \/ PopBack

SpecPop == InitLayout /\ [][NextPop]_vars

\* C17: insert (index > len), swap (an index >= len), split_off (at > len),
\* rotate_left and rotate_right (amount > len) and the index operator (index
\* >= len) fault with "index out of bounds: the len is {len} but the index is
\* {index}", naming the length of the deque and the index the caller passed,
\* and at the fault the logical sequence and the length are as before the
\* call.
C17_IndexFault ==
    op.name \in {"insert", "swap", "split_off", "rotate_left", "rotate_right",
                 "index", "index_mut"} =>
        /\ ub = {}
        /\ Offending # -1 =>
               /\ fault = [kind |-> "index out of bounds", a |-> len(pre), b |-> Offending]
               /\ iter(self) = iter(pre)
               /\ len(self) = len(pre)
        /\ Offending = -1 => fault = NoFault

\* a rotate_left by len() + 1 on a deque with elements in both stacks
C17_Witness ==
    /\ op.name = "rotate_left" /\ phase = "idle"
    /\ pre.head >= 1 /\ pre.cap - pre.tail >= 2
    /\ op.args[1] = len(pre) + 1
    /\ fault = [kind |-> "index out of bounds", a |-> len(pre), b |-> len(pre) + 1]
    /\ iter(self) = iter(pre)


\* C18 (as the code has it): after shrink_to(m) returns, capacity() is at
\* least max(min(m, c), len()) where c is the capacity before the call; a
\* lower bound m >= c leaves the deque as it was, so the capacity stays below
\* an m above it; the logical sequence is as before the call.
C18_ShrinkTo ==
    op.name = "shrink_to" /\ ub = {} =>
        /\ capacity(self) >= Max(Min(op.args[1], pre.cap), len(pre))
        /\ op.args[1] <= pre.cap => capacity(self) >= Max(op.args[1], len(self))
        /\ op.args[1] >= pre.cap => Snapshot(self) = pre
        /\ iter(self) = iter(pre)
        /\ fault = NoFault

\* a shrink_to that lowered the capacity of a deque with elements in both
\* stacks to a lower bound above its length
C18_Witness ==
    /\ op.name = "shrink_to" /\ phase = "idle"
    /\ pre.head >= 1 /\ pre.cap - pre.tail >= 1
    /\ op.args[1] > len(pre) /\ op.args[1] < pre.cap
    /\ capacity(self) = op.args[1]
    /\ iter(self) = iter(pre)

\* C18 as stated: after shrink_to(m) returns, capacity() >= max(m, len()),
\* for every m
C18_AsStated ==
    op.name = "shrink_to" /\ ub = {} => capacity(self) >= Max(op.args[1], len(self))

\* C19: after reserve(n) or reserve_exact(n), capacity() >= len() + n; when
\* capacity() - len() >= n held before the call the capacity (and the whole
\* deque) is unchanged; otherwise reserve_exact sets the capacity to exactly
\* len() + n and reserve sets it to the largest of twice the old capacity,
\* len() + n and the minimum non-zero capacity.  The logical sequence is as
\* before the call.
C19_Reserve ==
    op.name \in {"reserve", "reserve_exact"} =>
        LET n == op.args[1]
            old_cap == pre.cap
            old_len == len(pre)
        IN /\ ub = {} /\ fault = NoFault
           /\ iter(self) = iter(pre)
           /\ capacity(self) >= len(self) + n
           /\ old_cap - old_len >= n => Snapshot(self) = pre
           /\ old_cap - old_len < n /\ op.name = "reserve_exact" =>
                  capacity(self) = old_len + n
           /\ old_cap - old_len < n /\ op.name = "reserve" =>
                  capacity(self) = Max(Max(2 * old_cap, old_len + n), MIN_NON_ZERO_CAP)

\* a reserve on a full deque with elements in both stacks where len() + n
\* is above both twice the old capacity and the minimum non-zero capacity
C19_Witness ==
    /\ op.name = "reserve" /\ phase = "idle"
    /\ pre.head >= 1 /\ pre.cap - pre.tail >= 1
    /\ len(pre) + op.args[1] > 2 * pre.cap
    /\ len(pre) + op.args[1] > MIN_NON_ZERO_CAP
    /\ capacity(self) = len(pre) + op.args[1]
    /\ iter(self) = iter(pre)

\* the front stack, top first: the slots [tail, cap)
FrontStack == [k \in 1..(cap - tail) |-> buf[tail + k - 1]]

\* the back stack, bottom first: the slots [0, head)
BackStack == [k \in 1..head |-> buf[k - 1]]

\* C20: a deque built from the tuple (F, B) has F as its front stack and B as
\* its back stack; and for any deque whose front stack holds F and whose
\* back stack holds B, as_slices() returns (F, B), get(i) returns F[i] for
\* i < |F|, B[i - |F|] for |F| <= i < |F| + |B| and None for
\* i >= |F| + |B|, and iteration yields F followed by B.  None of them
\* changes the deque.
C20_Read ==
    /\ ub = {} /\ fault = NoFault
    /\ op.name = "from" =>
           /\ FrontStack = [k \in 1..op.args[1] |-> k]
           /\ BackStack = [k \in 1..op.args[2] |-> op.args[1] + k]
    /\ op.name \in {"get", "as_slices", "iter"} => Snapshot(self) = pre
    /\ op.name = "as_slices" => ret = <<FrontStack, BackStack>>
    /\ op.name = "iter" => ret = FrontStack \o BackStack
    /\ op.name = "get" =>
           LET i == op.args[1] IN
           ret = IF i < Len(FrontStack) THEN <<FrontStack[i + 1]>>
                 ELSE IF i < Len(FrontStack) + Len(BackStack)
                      THEN <<BackStack[i - Len(FrontStack) + 1]>>
                 ELSE <<>>

\* a get of the second element of the back stack of a deque with two
\* elements in each stack
C20_Witness ==
    /\ op.name = "get" /\ phase = "idle"
    /\ Len(FrontStack) = 2 /\ Len(BackStack) = 2
    /\ op.args[1] = 3
    /\ ret = <<BackStack[2]>>

\* C21: two deques compare equal exactly when their logical sequences are
\* equal, whatever the split of each between front and back stack and
\* whatever their capacities; two equal deques feed a hasher the same data,
\* the length followed by the elements in logical order.
C21_EqHash ==
    /\ op.name = "eq" =>
           ret = <<FrontStack \o BackStack = op.args[1] \o op.args[2]>>
    /\ op.name = "hash" =>
           /\ ret[1] = <<Len(FrontStack) + Len(BackStack)>> \o FrontStack \o BackStack
           /\ ret[2] = <<Len(op.args[1]) + Len(op.args[2])>> \o op.args[1] \o op.args[2]
           /\ FrontStack \o BackStack = op.args[1] \o op.args[2] => ret[1] = ret[2]

\* two deques of three elements found equal, split after the first element
\* and after the second, with different capacities
C21_Witness ==
    /\ op.name = "eq" /\ phase = "idle"
    /\ ret = <<TRUE>>
    /\ Len(FrontStack) = 1 /\ Len(BackStack) = 2
    /\ Len(op.args[1]) = 2 /\ Len(op.args[2]) = 1
    /\ cap # other.cap

\* C22: a Vec converted into an AltDeque lies wholly in the back stack
\* (head = length, tail = capacity) in the Vec's own allocation, and
\* converting that deque straight back gives a Vec with the same elements in
\* the same order, the same capacity and the same buffer: no slot has
\* changed and the allocator was not called in either conversion.
C22_VecRoundTrip ==
    /\ op.name = "from_vec" =>
           /\ head = Len(op.args[1]) /\ tail = op.args[2] /\ cap = op.args[2]
           /\ BackStack = op.args[1] /\ FrontStack = <<>>
           /\ alloc = 0
    /\ op.name = "into_vec" =>
           /\ ub = {} /\ fault = NoFault /\ phase = "vec"
           /\ ret = [i \in 1..pre.head |-> pre.buf[i - 1]]
           /\ cap = pre.cap
           /\ buf = pre.buf
           /\ alloc = 0 /\ drops = <<>>

\* a Vec of three elements and two spare slots, there and back
C22_Witness ==
    /\ op.name = "into_vec" /\ phase = "vec"
    /\ Len(ret) = 3 /\ cap = 5
    /\ pre.head = 3 /\ pre.tail = 5

\* C23: when make_contiguous() is called twice in a row, the second call
\* changes nothing (head, tail, capacity and every buffer slot stay as the
\* first call left them), moves and allocates nothing, and returns the same
\* slice as the first call returned.
C23_Twice ==
    [][(op.name = "make_contiguous" /\ op'.name = "make_contiguous") =>
           /\ head' = head /\ tail' = tail /\ cap' = cap /\ buf' = buf
           /\ ret' = ret
           /\ ub' = {} /\ fault' = NoFault /\ alloc' = 0]_vars

\* the second call has returned, on a deque of at least three elements with
\* free slots, whose back stack was not empty before the first call (as in
\* every initial state of SpecTwice): the call started from head = 0
C23_Witness ==
    /\ op.name = "make_contiguous" /\ phase = "idle"
    /\ pre.head = 0 /\ pre = Snapshot(self)
    /\ Len(ret) >= 3 /\ tail >= 1

\* C24: for every layout, every index i with 0 <= i <= len() and every value
\* v, insert(i, v) followed by remove(i) returns v and restores the original
\* length and logical sequence.
C24_InsertRemove ==
    (/\ op.name = "remove" /\ before.op.name = "insert"
     /\ before.op.args[1] <= len(before.pre)
     /\ op.args[1] = before.op.args[1]) =>
        /\ ub = {} /\ fault = NoFault
        /\ ret = <<before.op.args[2]>>
        /\ len(self) = len(before.pre)
        /\ iter(self) = iter(before.pre)

\* an insert at the first index of the back stack of a full deque with two
\* elements in each stack, which grew first, and the remove at that index
C24_Witness ==
    /\ op.name = "remove" /\ before.op.name = "insert" /\ phase = "idle"
    /\ before.pre.head = 2 /\ before.pre.tail = 2 /\ before.pre.cap = 4
    /\ before.op.args[1] = 2 /\ op.args[1] = 2
    /\ ret = <<before.op.args[2]>>
    /\ iter(self) = iter(before.pre)
    /\ cap > before.pre.cap

\* C25: for every layout and every k with 0 <= k <= len(), rotate_left(k)
\* followed by rotate_right(k) restores the original logical sequence (and
\* the length).
C25_RotateBack ==
    (/\ op.name = "rotate_right" /\ before.op.name = "rotate_left"
     /\ before.op.args[1] <= len(before.pre)
     /\ op.args[1] = before.op.args[1]) =>
        /\ ub = {} /\ fault = NoFault
        /\ iter(self) = iter(before.pre)
        /\ len(self) = len(before.pre)

\* a deque with two elements in each stack rotated left by three (across the
\* bound between the stacks) and right by three
C25_Witness ==
    /\ op.name = "rotate_right" /\ before.op.name = "rotate_left" /\ phase = "idle"
    /\ before.pre.head = 2 /\ before.pre.cap - before.pre.tail = 2
    /\ before.op.args[1] = 3 /\ op.args[1] = 3
    /\ iter(pre) # iter(before.pre)
    /\ iter(self) = iter(before.pre)

\* the sequence s with the element at the 0-based index i replaced by v
Replaced(s, i, v) == [k \in 1..Len(s) |-> IF k = i + 1 THEN v ELSE s[k]]

\* C26: for index < len(), swap_remove_front(index) returns the element at
\* index and leaves the sequence obtained by putting the first element in its
\* place and then removing the first element; swap_remove_back(index)
\* returns the element at index and leaves the sequence obtained by putting
\* the last element in its place and then removing the last element; for
\* index >= len() both return None and change nothing.
C26_SwapRemove ==
    op.name \in {"swap_remove_front", "swap_remove_back"} =>
        LET s == iter(pre)
            index == op.args[1]
        IN /\ ub = {} /\ fault = NoFault /\ drops = <<>>
           /\ index >= Len(s) => ret = <<>> /\ Snapshot(self) = pre
           /\ index < Len(s) /\ op.name = "swap_remove_front" =>
                  /\ ret = <<s[index + 1]>>
                  /\ iter(self) = Tail(Replaced(s, index, s[1]))
           /\ index < Len(s) /\ op.name = "swap_remove_back" =>
                  /\ ret = <<s[index + 1]>>
                  /\ iter(self) = SubSeq(Replaced(s, index, s[Len(s)]), 1, Len(s) - 1)

\* a swap_remove_back of the second element of the front stack of a deque
\* with two elements in each stack
C26_Witness ==
    /\ op.name = "swap_remove_back" /\ phase = "idle"
    /\ pre.head = 2 /\ pre.cap - pre.tail = 2
    /\ op.args[1] = 1
    /\ ret = <<iter(pre)[2]>>
    /\ iter(self) = <<iter(pre)[1], iter(pre)[4], iter(pre)[3]>>

\* C27: every slot write, swap and block move performed by any operation,
\* including the compaction done when a Drain is dropped and the block swaps
\* of make_contiguous, touches only offsets in [0, capacity): no operation
\* ends with a write or a move whose source or destination range leaves the
\* buffer.
C27_InBounds == "out of bounds" \notin ub

\* C28: when the drained range (here: one that is not empty) lies wholly
\* inside one stack and the other stack is not empty, dropping the Drain
\* leaves the other stack exactly as it was before drain was called: the
\* back stack's head and elements when the range is inside the front stack,
\* the front stack's tail and elements when the range is inside the back
\* stack.
C28_OtherStackKept ==
    (op.name = "drain_drop" /\ ub = {} /\ drain.range_start < drain.range_end) =>
        LET front_len == pre.cap - pre.tail IN
        /\ (drain.range_end <= front_len /\ pre.head >= 1) =>
               /\ head = pre.head
               /\ BackStack = as_slices(pre)[2]
        /\ (drain.range_start >= front_len /\ front_len >= 1) =>
               /\ tail = pre.tail
               /\ FrontStack = as_slices(pre)[1]

\* C29: from the moment drain(range) returns until the Drain is dropped, the
\* deque's own cursors are head = 0 and tail = capacity, so the deque reads
\* as empty; if the Drain is leaked without being dropped, the deque is left
\* empty and still satisfies 0 <= head <= tail <= capacity.
C29_DrainCursors ==
    /\ phase = "draining" =>
           /\ head = 0 /\ tail = cap
           /\ FrontStack \o BackStack = <<>>
           /\ cap = pre.cap
    /\ op.name = "forget" =>
           /\ ub = {} /\ phase = "idle"
           /\ FrontStack \o BackStack = <<>>
           /\ 0 <= head /\ head <= tail /\ tail <= cap

\* a Drain over the middle of a deque with two elements in each stack,
\* leaked after it yielded one element
C29_Witness ==
    /\ op.name = "forget" /\ phase = "idle"
    /\ pre.head = 2 /\ pre.cap - pre.tail = 2
    /\ drain.range_start = 1 /\ drain.range_end = 3
    /\ Len(yielded) = 1
    /\ head = 0 /\ tail = cap

\* C30: pop_front on a deque whose front stack is empty and whose back stack
\* holds n >= 1 elements returns the back stack's first element (offset 0)
\* and leaves the other n - 1 elements, in order, as the front stack ending
\* at capacity, with head = 0 and tail = capacity - (n - 1); pop_back on a
\* deque whose back stack is empty and whose front stack holds n >= 1
\* elements returns the last front-stack element and leaves the other n - 1
\* elements, in order, as the back stack starting at offset 0, with
\* head = n - 1 and tail = capacity.
C30_StackFlip ==
    /\ (op.name = "pop_front" /\ pre.tail = pre.cap /\ pre.head >= 1) =>
           LET n == pre.head IN
           /\ ub = {} /\ fault = NoFault
           /\ ret = <<pre.buf[0]>>
           /\ cap = pre.cap /\ head = 0 /\ tail = cap - (n - 1)
           /\ FrontStack = [k \in 1..(n - 1) |-> pre.buf[k]]
           /\ BackStack = <<>>
    /\ (op.name = "pop_back" /\ pre.head = 0 /\ pre.tail < pre.cap) =>
           LET n == pre.cap - pre.tail IN
           /\ ub = {} /\ fault = NoFault
           /\ ret = <<pre.buf[pre.cap - 1]>>
           /\ cap = pre.cap /\ head = n - 1 /\ tail = cap
           /\ BackStack = [k \in 1..(n - 1) |-> pre.buf[pre.tail + k - 1]]
           /\ FrontStack = <<>>

\* a pop_front that moved three of the four elements of the back stack to
\* the end of a buffer with free slots
C30_Witness ==
    /\ op.name = "pop_front" /\ phase = "idle"
    /\ pre.tail = pre.cap /\ pre.head = 4 /\ pre.cap > 4
    /\ ret = <<pre.buf[0]>>
    /\ head = 0 /\ tail = cap - 3
    /\ FrontStack = <<pre.buf[1], pre.buf[2], pre.buf[3]>>

\* the offsets of the elements of the deque: [0, head) and [tail, cap)
Live == {i \in 0..(cap - 1) : i < head \/ i >= tail}

\* C31: pop_front on a deque with a non-empty front stack only increases
\* tail by one, and pop_back on a deque with a non-empty back stack only
\* decreases head by one: no element is moved, and the other cursor, the
\* capacity and the offsets of all remaining elements are unchanged.
\* push_back on a non-full deque changes only head (plus one) and the slot
\* at the old head; push_front on a non-full deque changes only tail (minus
\* one) and the slot at the new tail.  None of the four calls the allocator.
C31_OneCursor ==
    /\ (op.name = "pop_front" /\ pre.tail # pre.cap) =>
           /\ tail = pre.tail + 1 /\ head = pre.head /\ cap = pre.cap
           /\ ret = <<pre.buf[pre.tail]>>
           /\ \A i \in Live : buf[i] = pre.buf[i]
           /\ alloc = 0 /\ ub = {}
    /\ (op.name = "pop_back" /\ pre.head # 0) =>
           /\ head = pre.head - 1 /\ tail = pre.tail /\ cap = pre.cap
           /\ ret = <<pre.buf[pre.head - 1]>>
           /\ \A i \in Live : buf[i] = pre.buf[i]
           /\ alloc = 0 /\ ub = {}
    /\ (op.name = "push_back" /\ pre.head # pre.tail) =>
           /\ head = pre.head + 1 /\ tail = pre.tail /\ cap = pre.cap
           /\ buf[pre.head] = op.args[1]
           /\ \A i \in 0..(cap - 1) : i # pre.head => buf[i] = pre.buf[i]
           /\ alloc = 0 /\ ub = {}
    /\ (op.name = "push_front" /\ pre.head # pre.tail) =>
           /\ tail = pre.tail - 1 /\ head = pre.head /\ cap = pre.cap
           /\ buf[tail] = op.args[1]
           /\ \A i \in 0..(cap - 1) : i # tail => buf[i] = pre.buf[i]
           /\ alloc = 0 /\ ub = {}

\* a push_front on a deque that is not full and has elements in both stacks
C31_Witness ==
    /\ op.name = "push_front" /\ phase = "idle"
    /\ pre.head # pre.tail /\ pre.head >= 1 /\ pre.cap - pre.tail >= 1
    /\ tail = pre.tail - 1 /\ buf[tail] = op.args[1]

\* C32: in any run that uses only push_back and pop_front, each element is
\* relocated by a stack-flip at most once, and after a stack-flip no
\* pop_front moves any element until the front stack has become empty
\* again: a pop_front that finds the front stack non-empty leaves every
\* remaining element in its slot.
C32_FlipOnce ==
    /\ [](\A x \in Ids : flips[x] <= 1)
    /\ [][(op'.name = "pop_front" /\ tail # cap) =>
              /\ flips' = flips
              /\ \A i \in 0..(cap - 1) :
                     (i < head' \/ i >= tail') => buf'[i] = buf[i]]_vars

\* an O(1) pop_front from a front stack made by a flip, while the back stack
\* holds elements pushed since
C32_Witness ==
    /\ op.name = "pop_front" /\ phase = "idle"
    /\ pre.tail # pre.cap
    /\ tail < cap /\ head >= 1
    /\ flips[buf[tail]] = 1
    /\ flips[buf[0]] = 0

\* ------------------------------------------------------------------ C33
NextGrow ==
    \/ FirstCall /\ PushBack
    \/ FirstCall /\ PushFront
    \/ FirstCall /\ Insert
    \/ FirstCall /\ Reserve
    \/ FirstCall /\ ReserveExact
    \/ FirstCall /\ Extend
    \/ FirstCall /\ Append_

\* one call of an operation that can raise the capacity, on every layout
SpecGrow == InitPair /\ [][NextGrow]_vars

\* the deque of a recorded layout
Recorded(s) == [head |-> s.head, tail |-> s.tail, cap |-> s.cap, buf |-> s.buf,
                ub |-> {}, fault |-> NoFault, drops |-> <<>>, ret |-> <<>>, alloc |-> 0]

\* the state in which the last operation found the deque full or too small:
\* extend first fills the free slots
BeforeGrowth ==
    IF op.name = "extend"
    THEN extend(Recorded(pre), Slice(op.args[1], 0, Min(pre.tail - pre.head, Len(op.args[1]))))
    ELSE Recorded(pre)

\* the state right after the growth step of the last operation
Grown ==
    CASE op.name \in {"push_back", "push_front", "insert"} -> grow(BeforeGrowth)
      [] op.name = "reserve" -> reserve(BeforeGrowth, op.args[1])
      [] op.name = "reserve_exact" -> reserve_exact(BeforeGrowth, op.args[1])
      [] op.name = "extend" ->
             reserve(BeforeGrowth,
                     Max(Len(op.args[1]) - (pre.tail - pre.head) - 1, 1))
      [] op.name = "append" -> reserve(BeforeGrowth, Len(iter(op.args[1])))
      [] OTHER -> BeforeGrowth

\* the elements the last operation itself put on the front and the back stack
PutFront == IF op.name = "push_front" THEN <<op.args[1]>> ELSE <<>>

PutBack ==
    CASE op.name = "push_back" -> <<op.args[1]>>
      [] op.name = "extend" -> op.args[1]
      [] op.name = "append" -> iter(op.args[1])
      [] OTHER -> <<>>

\* C33: whenever an operation raises the capacity from C to C' (push or
\* insert on a full deque, reserve, reserve_exact, extend, append), then
\* once the growth step is done tail has increased by exactly C' - C, head
\* is unchanged, the front stack again ends at the new capacity and both
\* stacks hold the same elements in the same order as before the growth;
\* the operation's own elements are then added to stacks laid out that way.
C33_Growth ==
    (/\ op.name \in {"push_back", "push_front", "insert", "reserve",
                     "reserve_exact", "extend", "append"}
     /\ phase = "idle"
     /\ cap > pre.cap)
    => /\ ub = {}
       /\ Grown.ub = {}
       /\ Grown.cap > pre.cap
       /\ Grown.tail = BeforeGrowth.tail + (Grown.cap - pre.cap)
       /\ Grown.head = BeforeGrowth.head
       /\ as_slices(Grown) = as_slices(BeforeGrowth)
       /\ op.name # "insert" =>
              /\ cap = Grown.cap
              /\ tail = pre.tail + (cap - pre.cap) - Len(PutFront)
              /\ head = pre.head + Len(PutBack)
              /\ FrontStack = PutFront \o as_slices(pre)[1]
              /\ BackStack = as_slices(pre)[2] \o PutBack
       /\ op.name = "insert" =>
              /\ cap = Grown.cap
              /\ fault = NoFault =>
                     iter(self) = InsertAt(iter(pre), op.args[1], op.args[2])
              /\ fault # NoFault =>
                     /\ head = Grown.head /\ tail = Grown.tail
                     /\ as_slices(self) = as_slices(Grown)

\* a deque with elements on both stacks was grown by a reservation, the
\* front stack moving by more than its own length or by less
C33_Witness ==
    /\ op.name \in {"reserve", "reserve_exact"} /\ phase = "idle"
    /\ cap > pre.cap
    /\ pre.head >= 1 /\ pre.cap - pre.tail >= 2
    /\ cap - pre.cap < pre.cap - pre.tail
    /\ tail = pre.tail + (cap - pre.cap)


\* ------------------------------------------------------------ C34, C35
NextRelease == ShrinkTo \/ ShrinkToFit

\* shrink_to and shrink_to_fit, from every layout
SpecRelease == InitLayout /\ [][NextRelease]_vars

\* C34: shrink_to(m) with m < capacity() sets the capacity to exactly
\* max(m, len()) and leaves the contents of both the front slice and the
\* back slice unchanged, the front stack being moved so that it again ends
\* at the new capacity; shrink_to(m) with m >= capacity() changes nothing.
C34_ShrinkExact ==
    op.name = "shrink_to" =>
        LET m == op.args[1] IN
        /\ m < pre.cap =>
               /\ ub = {} /\ fault = NoFault
               /\ capacity(self) = Max(m, len(pre))
               /\ as_slices(self) = as_slices(pre)
               /\ head = pre.head
               /\ tail = cap - Len(as_slices(pre)[1])
        /\ m >= pre.cap => Snapshot(self) = pre /\ ub = {} /\ alloc = 0

\* C35: shrink_to_fit() or shrink_to(0) on an empty deque that owns an
\* allocation releases that allocation and leaves capacity 0; the buffer
\* manager never asks the allocator to reallocate a block to a size of zero
\* bytes, and no allocation is freed twice.
C35_Released ==
    /\ "realloc to size zero" \notin ub
    /\ (/\ op.name \in {"shrink_to", "shrink_to_fit"}
        /\ op.name = "shrink_to" => op.args[1] = 0
        /\ len(pre) = 0 /\ pre.cap > 0)
       => /\ ub = {} /\ phase = "idle"
          /\ capacity(self) = 0


\* ------------------------------------------------------------------ C36
\* C36: make_contiguous always finishes with head = 0 and tail = capacity -
\* len() (the slack), leaves len() and capacity() unchanged, and afterwards
\* as_slices() returns every element in the first slice and an empty second
\* slice.
C36_OneSlice ==
    op.name = "make_contiguous" =>
        /\ ub = {} /\ fault = NoFault
        /\ head = 0
        /\ tail = capacity(self) - len(pre)
        /\ len(self) = len(pre)
        /\ capacity(self) = pre.cap
        /\ as_slices(self)[2] = <<>>
        /\ Len(as_slices(self)[1]) = len(pre)
        /\ Range(as_slices(self)[1]) = Range(iter(pre))


\* ------------------------------------------------------------------ C37
\* the layout needs the block-swap loop: fewer free slots than either stack
\* has elements
BlockSwapCase(s) ==
    /\ s.head > 0 /\ s.cap - s.tail > 0
    /\ s.tail - s.head < s.head
    /\ s.tail - s.head < s.cap - s.tail

LoopExit ==
    LET front_len == pre.cap - pre.tail
        free == pre.tail - pre.head
    IN block_swap_loop(Recorded(pre), front_len + free,
                       Max(pre.head - (front_len + free), 0), pre.head, free, LoopFuel).ret

\* C38: for every layout in which the slack is smaller than both the
\* front-stack length and the back-stack length, the block-swap loop of
\* make_contiguous terminates: it always reaches either the final shift or
\* the exit taken when the remaining distance divides evenly.
C38_LoopEnds ==
    (op.name = "make_contiguous" /\ BlockSwapCase(pre)) =>
        /\ "loop does not end" \notin ub
        /\ LoopExit \in {<<"final shift">>, <<"multiple of count">>}
        /\ phase = "idle"
        /\ head = 0 /\ tail = pre.tail - pre.head

\* the loop ended by the final shift on a layout with one free slot and more
\* elements in the back stack than the first distance between the blocks
C38_Witness ==
    /\ op.name = "make_contiguous" /\ phase = "idle"
    /\ BlockSwapCase(pre)
    /\ pre.tail - pre.head = 1
    /\ pre.head > pre.cap - pre.head
    /\ LoopExit = <<"final shift">>


\* ------------------------------------------------------------------ C39
NextUnwind == TruncateUnwind

\* truncate with a destructor that panics, from every layout
SpecUnwind == InitLayout /\ [][NextUnwind]_vars

\* C39: in truncate(n) the cursors are moved so that no doomed element is
\* reachable through the deque before the first destructor runs; and if the
\* destructor of a front-stack element fails while the cut is in the front
\* stack, the back-stack elements are still destroyed, the retained first n
\* elements are still relocated to the end of the buffer with head = 0 and
\* tail = capacity - n, and no element is destroyed twice.
C39_Guarded ==
    (op.name = "truncate" /\ op.args[1] <= len(pre)) =>
        LET n == op.args[1]
            bad == op.args[2]
            front == as_slices(pre)[1]
            back == as_slices(pre)[2]
            doomed == Slice(iter(pre), n, len(pre))
            cut == truncate_cut(Recorded(pre), n)
        IN /\ ub = {}
           /\ Range(doomed) \cap Range(iter(cut)) = {}
           /\ \A x \in Ids : Count(drops, x) <= 1
           /\ (n <= Len(front) /\ bad \in Range(Slice(front, n, Len(front)))) =>
                  /\ fault = [kind |-> "destructor panicked", a |-> bad, b |-> 0]
                  /\ Range(back) \subseteq Range(drops)
                  /\ Range(drops) = Range(doomed)
                  /\ head = 0 /\ tail = capacity(self) - n
                  /\ as_slices(self)[1] = Slice(iter(pre), 0, n)
                  /\ capacity(self) = pre.cap

\* the destructor of a front-stack element panicked in a truncate that kept
\* one element of a front stack of two and destroyed a back stack of two
C39_Witness ==
    /\ op.name = "truncate" /\ phase = "idle"
    /\ op.args[1] = 1
    /\ pre.cap - pre.tail = 2 /\ pre.head = 2
    /\ op.args[2] = pre.buf[pre.tail + 1]
    /\ fault.kind = "destructor panicked"
    /\ Len(drops) = 3
    /\ head = 0 /\ tail = cap - 1


\* ------------------------------------------------------------------ C40
NextDrainUnwind == DrainStart \/ DrainNext \/ DrainNextBack \/ DrainDropUnwind

\* a Drain dropped with a destructor that panics, from every layout
SpecDrainUnwind == InitLayout /\ [][NextDrainUnwind]_vars

\* C40: if an element's destructor fails while a dropped Drain is destroying
\* the in-range elements it has not yet yielded, no element is destroyed
\* twice and no element is leaked: the remaining in-range elements are still
\* destroyed exactly once and the elements outside the range are still
\* owned by the deque afterwards.
C40_NoLeak ==
    (op.name = "drain_drop" /\ fault.kind = "destructor panicked") =>
        LET range_start == op.args[1]
            range_end == op.args[2]
            in_range == Slice(iter(pre), range_start, range_end)
            outside == Slice(iter(pre), 0, range_start)
                           \o Slice(iter(pre), range_end, len(pre))
        IN /\ ub = {}
           /\ \A x \in Ids : Count(yielded \o drops, x) <= 1
           /\ \A x \in Range(in_range) : Count(yielded \o drops, x) = 1
           /\ iter(self) = outside

====
